---- MODULE Spec2Model ----
(***************************************************************************)
(* A state-machine model of the booking backend (FastAPI + SQLModel).      *)
(* The persisted tables are the state; every route handler / service       *)
(* function is one atomic action (a request runs in its own session and    *)
(* commits or fails as a whole unless the code commits twice).             *)
(***************************************************************************)
EXTENDS Integers, Sequences, FiniteSets, TLC

\* ------------------------------------------------------------- bounds
MaxUsers == 3          \* user ids handed out (the seeded admin included)
MaxProviders == 2      \* provider ids handed out
MaxStays == 2          \* stay ids handed out
MaxCars == 1           \* car ids handed out
MaxReviews == 3        \* review ids handed out per review table
MaxTax == 1            \* ids handed out per taxonomy table
MaxImages == 1         \* image ids handed out per image table

\* ------------------------------------------------------------- domains
AdminEmail == "admin@admin.com"
Emails == {AdminEmail, "a@x", "b@x"}
UserRole == {"customer", "provider", "admin"}
ProviderStatus == {"pending", "approved", "rejected"}

VARIABLES
    fkEnforced,     \* whether the store enforces FOREIGN KEY constraints
    users,          \* table user: set of [id, email, role]
    providers,      \* table provider: set of [id, user_id, status]
    amenities,      \* table amenity: set of [id, name]
    propertyTypes,  \* table propertytype: set of [id, name]
    carTypes,       \* table cartype: set of [id, name]
    carFeatures,    \* table carfeature: set of [id, name]
    stays,          \* table stay
    stayAmenity,    \* link table stayamenity: set of [stay_id, amenity_id]
    stayImages,     \* table stayimage: set of [id, stay_id]
    reviews,        \* table review: set of [id, stay_id, user_id, rating]
    cars,           \* table car
    carFeatureLink, \* link table carfeaturelink: set of [car_id, feature_id]
    carImages,      \* table carimage: set of [id, car_id]
    carReviews,     \* table carreview: set of [id, car_id, user_id, rating]
    nextId,         \* per table, the next autoincrement id
    caller,         \* id of the user the last request authenticated as, or 0
    query,          \* the search request in flight, or NoQuery
    found,          \* the body last returned: [query, scan, items, results]
    inflight,       \* review submissions suspended at an await: request records
    last            \* the last request served: [op, status]

accountVars == <<users, providers>>
taxVars == <<amenities, propertyTypes, carTypes, carFeatures>>
stayVars == <<stays, stayAmenity, stayImages, reviews>>
carVars == <<cars, carFeatureLink, carImages, carReviews>>
dbVars == <<accountVars, taxVars, stayVars, carVars, nextId>>
searchVars == <<query, found>>
vars == <<fkEnforced, dbVars, searchVars, caller, inflight, last>>

Tables == {"user", "provider", "amenity", "propertytype", "cartype",
           "carfeature", "stay", "stayimage", "review", "car", "carimage",
           "carreview"}

\* HTTP outcomes (204 of the delete routes is reported as OK)
OK == 200
BadRequest == 400
Unauthorized == 401
Forbidden == 403
NotFound == 404
ServerError == 500     \* an exception no handler catches (IntegrityError, ...)

NoQuery == [kind |-> "none"]
NoResult == [query |-> NoQuery, scan |-> <<>>, items |-> <<>>, results |-> <<>>]
NoSearch == query = NoQuery /\ found = NoResult /\ caller = 0

\* The response: its status and, in found.results, the schema objects of its
\* body where the model carries them.
RespondWith(op, status, body) ==
    /\ last' = [op |-> op, status |-> status]
    /\ found' = [NoResult EXCEPT !.results = body]
    /\ query' = query
    /\ inflight' = inflight

Respond(op, status) == RespondWith(op, status, <<>>)

\* A request that fails: the session is closed without a commit.
Fail(op, status) == Respond(op, status) /\ UNCHANGED <<fkEnforced, dbVars>>

Bump(t) == [nextId EXCEPT ![t] = @ + 1]

\* ------------------------------------------------------------------
\* app/core/security/permissions.py
\* ------------------------------------------------------------------
\* A bearer token carries the account's email ("sub"); signature and expiry
\* are the token library's business.
TokenKnown(tok) == \E u \in users : u.email = tok

get_current_user(tok) == CHOOSE u \in users : u.email = tok

\* the user the request is served for; 0 without one
Caller(tok) == IF TokenKnown(tok) THEN get_current_user(tok).id ELSE 0

\* require_role without its comparison: any account passes
require_role_any(tok, required_role) ==
    IF ~TokenKnown(tok) THEN Unauthorized ELSE OK

\* require_role(required_role): 401 without an account, 403 on another role.
require_role(tok, required_role) ==
    IF ~TokenKnown(tok) THEN Unauthorized
    ELSE IF get_current_user(tok).role # required_role THEN Forbidden
    ELSE OK

\* ------------------------------------------------------------------
\* Deleting a user row through the ORM (session.delete(user); commit).
\* User.provider and User.reviews are relationships without a delete
\* cascade: the ORM nulls the children's user_id, which the NOT NULL
\* columns refuse.  CarReview has no relationship to User: only the store's
\* foreign key protects it.
\* ------------------------------------------------------------------
UserDeleteRefused(u) ==
    \/ \E p \in providers : p.user_id = u.id
    \/ \E r \in reviews : r.user_id = u.id
    \/ fkEnforced /\ \E r \in carReviews : r.user_id = u.id

DeleteUserRow(op, u) ==
    IF UserDeleteRefused(u) THEN Fail(op, ServerError)
    ELSE /\ users' = users \ {u}
         /\ Respond(op, OK)
         /\ UNCHANGED <<fkEnforced, providers, taxVars, stayVars, carVars, nextId>>

\* ------------------------------------------------------------------
\* app/features/users
\* ------------------------------------------------------------------
\* create_user without its refusal of the admin role
RegisterAnyRole(email, role) ==
    /\ caller' = 0
    /\ IF \E u \in users : u.email = email THEN Fail("create_user", BadRequest)
       ELSE /\ nextId["user"] <= MaxUsers
            /\ users' = users \cup
                   {[id |-> nextId["user"], email |-> email, role |-> role]}
            /\ nextId' = Bump("user")
            /\ Respond("create_user", OK)
            /\ UNCHANGED <<fkEnforced, providers, taxVars, stayVars, carVars>>

\* POST /users/register -> services.create_user
Register(email, role) ==
    /\ caller' = 0
    /\ IF role = "admin" THEN Fail("create_user", Forbidden)
       ELSE IF \E u \in users : u.email = email THEN Fail("create_user", BadRequest)
       ELSE /\ nextId["user"] <= MaxUsers
            /\ users' = users \cup
                   {[id |-> nextId["user"], email |-> email, role |-> role]}
            /\ nextId' = Bump("user")
            /\ Respond("create_user", OK)
            /\ UNCHANGED <<fkEnforced, providers, taxVars, stayVars, carVars>>

\* PUT /users/me -> services.update_user: full_name and hashed_password are
\* assigned from UserUpdate, which has no role and no email; the columns the
\* model carries are written back as they were.
UpdateMe(tok) ==
    /\ caller' = Caller(tok)
    /\ IF ~TokenKnown(tok) THEN Fail("update_user", Unauthorized)
       ELSE /\ users' = {IF u.id = get_current_user(tok).id
                           THEN [u EXCEPT !.role = @, !.email = @] ELSE u
                           : u \in users}
            /\ Respond("update_user", OK)
            /\ UNCHANGED <<fkEnforced, providers, taxVars, stayVars, carVars, nextId>>

\* DELETE /users/me -> services.delete_user
DeleteMe(tok) ==
    /\ caller' = Caller(tok)
    /\ IF ~TokenKnown(tok) THEN Fail("delete_user", Unauthorized)
       ELSE DeleteUserRow("delete_user", get_current_user(tok))

\* ------------------------------------------------------------------
\* app/features/providers
\* ------------------------------------------------------------------
\* POST /providers/ -> services.create_provider
CreateProvider(tok) ==
    /\ caller' = Caller(tok)
    /\ IF ~TokenKnown(tok) THEN Fail("create_provider", Unauthorized)
       ELSE LET user == get_current_user(tok) IN
            IF user.role # "provider" THEN Fail("create_provider", BadRequest)
            ELSE IF \E p \in providers : p.user_id = user.id
                 THEN Fail("create_provider", BadRequest)
            ELSE /\ nextId["provider"] <= MaxProviders
                 /\ providers' = providers \cup
                       {[id |-> nextId["provider"], user_id |-> user.id,
                         status |-> "pending"]}
                 /\ nextId' = Bump("provider")
                 /\ Respond("create_provider", OK)
                 /\ UNCHANGED <<fkEnforced, users, taxVars, stayVars, carVars>>

\* ------------------------------------------------------------------
\* app/features/admin
\* ------------------------------------------------------------------
\* GET /admin/users -> services.list_users
AdminListUsers(tok) ==
    /\ caller' = Caller(tok)
    /\ Fail("list_users", require_role(tok, "admin"))

\* GET /admin/providers -> services.list_providers
AdminListProviders(tok) ==
    /\ caller' = Caller(tok)
    /\ Fail("list_providers", require_role(tok, "admin"))

\* PUT /admin/users/{user_id}/role -> services.change_user_role
ChangeRole(tok, user_id, new_role) ==
    /\ caller' = Caller(tok)
    /\ IF require_role(tok, "admin") # OK
       THEN Fail("change_user_role", require_role(tok, "admin"))
       ELSE IF ~\E u \in users : u.id = user_id
            THEN Fail("change_user_role", NotFound)
       ELSE /\ users' = {IF u.id = user_id THEN [u EXCEPT !.role = new_role] ELSE u
                           : u \in users}
            /\ Respond("change_user_role", OK)
            /\ UNCHANGED <<fkEnforced, providers, taxVars, stayVars, carVars, nextId>>

\* DELETE /admin/users/{user_id} -> services.deactivate_user
DeleteUserAsAdmin(tok, user_id) ==
    /\ caller' = Caller(tok)
    /\ IF require_role(tok, "admin") # OK
       THEN Fail("deactivate_user", require_role(tok, "admin"))
       ELSE IF ~\E u \in users : u.id = user_id
            THEN Fail("deactivate_user", NotFound)
       ELSE DeleteUserRow("deactivate_user", CHOOSE u \in users : u.id = user_id)

\* services.review_provider(provider_id, approve, session, current_user)
review_provider(provider_id, approve, current_user) ==
    IF current_user.role # "admin" THEN Fail("review_provider", Forbidden)
    ELSE IF ~\E p \in providers : p.id = provider_id
         THEN Fail("review_provider", NotFound)
    ELSE /\ providers' =
              {IF p.id = provider_id
                 THEN [p EXCEPT !.status = IF approve THEN "approved" ELSE "rejected"]
                 ELSE p : p \in providers}
         /\ Respond("review_provider", OK)
         /\ UNCHANGED <<fkEnforced, users, taxVars, stayVars, carVars, nextId>>

\* PUT /admin/providers/{provider_id}/review
ReviewProvider(tok, provider_id, approve) ==
    /\ caller' = Caller(tok)
    /\ IF require_role(tok, "admin") # OK
       THEN Fail("review_provider", require_role(tok, "admin"))
       ELSE review_provider(provider_id, approve, get_current_user(tok))

\* ------------------------------------------------------------------
\* Taxonomy management (admin routers of stays and cars)
\* ------------------------------------------------------------------
TaxNames == {"wifi"}
TaxIds == 1..MaxTax

\* stays/services.create_amenity: no lookup before the insert; the UNIQUE
\* constraint on name (models.py) raises IntegrityError on a duplicate.
create_amenity(name) ==
    IF \E a \in amenities : a.name = name THEN Fail("create_amenity", ServerError)
    ELSE /\ nextId["amenity"] <= MaxTax
         /\ amenities' = amenities \cup {[id |-> nextId["amenity"], name |-> name]}
         /\ nextId' = Bump("amenity")
         /\ Respond("create_amenity", OK)
         /\ UNCHANGED <<fkEnforced, accountVars, propertyTypes, carTypes,
                        carFeatures, stayVars, carVars>>

\* POST /admin/stays/amenities
CreateAmenity(tok, name) ==
    /\ caller' = Caller(tok)
    /\ IF require_role(tok, "admin") # OK
       THEN Fail("create_amenity", require_role(tok, "admin"))
       ELSE create_amenity(name)

\* stays/services.delete_amenity: the ORM removes the amenity's rows of the
\* link table (Amenity.stays, link_model=StayAmenity) with it.
delete_amenity(amenity_id) ==
    IF ~\E a \in amenities : a.id = amenity_id THEN Fail("delete_amenity", NotFound)
    ELSE /\ amenities' = {a \in amenities : a.id # amenity_id}
         /\ stayAmenity' = {l \in stayAmenity : l.amenity_id # amenity_id}
         /\ Respond("delete_amenity", OK)
         /\ UNCHANGED <<fkEnforced, accountVars, propertyTypes, carTypes,
                        carFeatures, stays, stayImages, reviews, carVars, nextId>>

\* DELETE /admin/stays/amenities/{amenity_id}
DeleteAmenity(tok, amenity_id) ==
    /\ caller' = Caller(tok)
    /\ IF require_role(tok, "admin") # OK
       THEN Fail("delete_amenity", require_role(tok, "admin"))
       ELSE delete_amenity(amenity_id)

\* stays/services.create_property_type
create_property_type(name) ==
    IF \E t \in propertyTypes : t.name = name
    THEN Fail("create_property_type", ServerError)
    ELSE /\ nextId["propertytype"] <= MaxTax
         /\ propertyTypes' = propertyTypes \cup
                {[id |-> nextId["propertytype"], name |-> name]}
         /\ nextId' = Bump("propertytype")
         /\ Respond("create_property_type", OK)
         /\ UNCHANGED <<fkEnforced, accountVars, amenities, carTypes,
                        carFeatures, stayVars, carVars>>

\* POST /admin/stays/property-types
CreatePropertyType(tok, name) ==
    /\ caller' = Caller(tok)
    /\ IF require_role(tok, "admin") # OK
       THEN Fail("create_property_type", require_role(tok, "admin"))
       ELSE create_property_type(name)

\* stays/services.delete_property_type: Stay.property_type_id is a plain
\* foreign key; a store that enforces it refuses while a stay uses the type.
delete_property_type(pt_id) ==
    IF ~\E t \in propertyTypes : t.id = pt_id
    THEN Fail("delete_property_type", NotFound)
    ELSE IF fkEnforced /\ \E s \in stays : s.property_type_id = pt_id
         THEN Fail("delete_property_type", ServerError)
    ELSE /\ propertyTypes' = {t \in propertyTypes : t.id # pt_id}
         /\ Respond("delete_property_type", OK)
         /\ UNCHANGED <<fkEnforced, accountVars, amenities, carTypes,
                        carFeatures, stayVars, carVars, nextId>>

\* DELETE /admin/stays/property-types/{pt_id}
DeletePropertyType(tok, pt_id) ==
    /\ caller' = Caller(tok)
    /\ IF require_role(tok, "admin") # OK
       THEN Fail("delete_property_type", require_role(tok, "admin"))
       ELSE delete_property_type(pt_id)

\* cars/services.create_car_type: looks the name up first
create_car_type(name) ==
    IF \E t \in carTypes : t.name = name THEN Fail("create_car_type", BadRequest)
    ELSE /\ nextId["cartype"] <= MaxTax
         /\ carTypes' = carTypes \cup {[id |-> nextId["cartype"], name |-> name]}
         /\ nextId' = Bump("cartype")
         /\ Respond("create_car_type", OK)
         /\ UNCHANGED <<fkEnforced, accountVars, amenities, propertyTypes,
                        carFeatures, stayVars, carVars>>

\* POST /admin/cars/types
CreateCarType(tok, name) ==
    /\ caller' = Caller(tok)
    /\ IF require_role(tok, "admin") # OK
       THEN Fail("create_car_type", require_role(tok, "admin"))
       ELSE create_car_type(name)

\* cars/services.delete_car_type: CarType.cars has no delete cascade, so the
\* ORM nulls car_type_id of the type's cars, which the NOT NULL column refuses.
delete_car_type(type_id) ==
    IF ~\E t \in carTypes : t.id = type_id THEN Fail("delete_car_type", NotFound)
    ELSE IF \E c \in cars : c.car_type_id = type_id
         THEN Fail("delete_car_type", ServerError)
    ELSE /\ carTypes' = {t \in carTypes : t.id # type_id}
         /\ Respond("delete_car_type", OK)
         /\ UNCHANGED <<fkEnforced, accountVars, amenities, propertyTypes,
                        carFeatures, stayVars, carVars, nextId>>

\* DELETE /admin/cars/types/{type_id}
DeleteCarType(tok, type_id) ==
    /\ caller' = Caller(tok)
    /\ IF require_role(tok, "admin") # OK
       THEN Fail("delete_car_type", require_role(tok, "admin"))
       ELSE delete_car_type(type_id)

\* cars/services.create_car_feature
create_car_feature(name) ==
    IF \E f \in carFeatures : f.name = name
    THEN Fail("create_car_feature", BadRequest)
    ELSE /\ nextId["carfeature"] <= MaxTax
         /\ carFeatures' = carFeatures \cup
                {[id |-> nextId["carfeature"], name |-> name]}
         /\ nextId' = Bump("carfeature")
         /\ Respond("create_car_feature", OK)
         /\ UNCHANGED <<fkEnforced, accountVars, amenities, propertyTypes,
                        carTypes, stayVars, carVars>>

\* POST /admin/cars/features
CreateCarFeature(tok, name) ==
    /\ caller' = Caller(tok)
    /\ IF require_role(tok, "admin") # OK
       THEN Fail("create_car_feature", require_role(tok, "admin"))
       ELSE create_car_feature(name)

\* cars/services.delete_car_feature: link rows go with the feature
delete_car_feature(feature_id) ==
    IF ~\E f \in carFeatures : f.id = feature_id
    THEN Fail("delete_car_feature", NotFound)
    ELSE /\ carFeatures' = {f \in carFeatures : f.id # feature_id}
         /\ carFeatureLink' = {l \in carFeatureLink : l.feature_id # feature_id}
         /\ Respond("delete_car_feature", OK)
         /\ UNCHANGED <<fkEnforced, accountVars, amenities, propertyTypes,
                        carTypes, stayVars, cars, carImages, carReviews, nextId>>

\* DELETE /admin/cars/features/{feature_id}
DeleteCarFeature(tok, feature_id) ==
    /\ caller' = Caller(tok)
    /\ IF require_role(tok, "admin") # OK
       THEN Fail("delete_car_feature", require_role(tok, "admin"))
       ELSE delete_car_feature(feature_id)

\* ------------------------------------------------------------------
\* Helpers for rows and request bodies
\* ------------------------------------------------------------------
\* An optional request field: <<>> when it was not sent, <<v>> when it was
Unset == <<>>
Sent(v) == <<v>>
Prices == {100, 200}

Range(seq) == {seq[i] : i \in 1..Len(seq)}
HasDuplicates(seq) == \E i, j \in 1..Len(seq) : i # j /\ seq[i] = seq[j]

RECURSIVE GCD(_, _)
GCD(a, b) == IF b = 0 THEN a ELSE GCD(b, a % b)

\* A non-negative rational in lowest terms (the model's float)
Rat(n, d) == LET g == GCD(n, d) IN [num |-> n \div g, den |-> d \div g]
Zero == Rat(0, 1)
RatOf(i) == Rat(i, 1)
RatAdd(a, b) == Rat(a.num * b.den + b.num * a.den, a.den * b.den)
RatMul(a, b) == Rat(a.num * b.num, a.den * b.den)
RatDiv(a, i) == Rat(a.num, a.den * i)

RECURSIVE SumRatings(_)
SumRatings(rs) ==
    IF rs = {} THEN 0
    ELSE LET r == CHOOSE x \in rs : TRUE IN r.rating + SumRatings(rs \ {r})

\* Python's round(x, 1) of x = total/n, in tenths: to nearest, ties to even
RoundTenths(total, n) ==
    LET q == (10 * total) \div n
        r == (10 * total) % n
    IN  IF 2 * r < n THEN q
        ELSE IF 2 * r > n THEN q + 1
        ELSE IF q % 2 = 0 THEN q ELSE q + 1

\* Link rows (owner, x) for x in ids are refused by the composite primary key
\* on a repeated id and, where foreign keys are enforced, on an unknown id.
LinkRowsRefused(ids, knownIds) ==
    \/ HasDuplicates(ids)
    \/ fkEnforced /\ ~(Range(ids) \subseteq knownIds)

\* providers/services.get_provider_by_user: result.first()
HasProvider(user) == \E p \in providers : p.user_id = user.id
get_provider_by_user(user) ==
    CHOOSE p \in providers :
        /\ p.user_id = user.id
        /\ \A q \in providers : q.user_id = user.id => p.id <= q.id

\* What every provider route does before its service call:
\* Depends(require_role("customer")), then get_provider_by_user.
ProviderGate(tok) ==
    IF require_role(tok, "customer") # OK THEN require_role(tok, "customer")
    ELSE IF ~HasProvider(get_current_user(tok)) THEN NotFound
    ELSE OK

ProviderFor(tok) == get_provider_by_user(get_current_user(tok))

\* ------------------------------------------------------------------
\* app/features/stays
\* ------------------------------------------------------------------
StayIds == 1..MaxStays
AmenityIdLists == {<<>>, <<1>>, <<2>>}
Fees == {15}
TaxPercents == {RatOf(10)}
StayCreate == [price_per_night : Prices, service_fee : Fees,
               tax_percent : TaxPercents, property_type_id : TaxIds,
               amenity_ids : AmenityIdLists]

StayExists(stay_id) == \E s \in stays : s.id = stay_id
StayRow(stay_id) == CHOOSE s \in stays : s.id = stay_id
OwnsStay(provider, stay_id) ==
    \E s \in stays : s.id = stay_id /\ s.provider_id = provider.id

\* the breakdown with the service fee left out of the total
SimpleBreakdownNoFee(stay) ==
    LET subtotal == RatOf(stay.price_per_night)
        taxes == RatDiv(RatMul(subtotal, stay.tax_percent), 100)
    IN  [subtotal |-> subtotal,
         service_fee |-> RatOf(stay.service_fee),
         taxes |-> taxes,
         total |-> RatAdd(subtotal, taxes)]

\* PriceBreakdown of the listing alone, as create_stay and search_stays
\* compute it
SimpleBreakdown(stay) ==
    LET subtotal == RatOf(stay.price_per_night)
        taxes == RatDiv(RatMul(subtotal, stay.tax_percent), 100)
    IN  [subtotal |-> subtotal,
         service_fee |-> RatOf(stay.service_fee),
         taxes |-> taxes,
         total |-> RatAdd(RatAdd(subtotal, RatOf(stay.service_fee)), taxes)]

\* StayRead: the columns of the row and the optional price_breakdown
StayRead(stay, breakdown) ==
    [f \in DOMAIN stay \cup {"price_breakdown"} |->
        IF f = "price_breakdown" THEN breakdown ELSE stay[f]]

\* services.create_stay
create_stay(stay_in, provider) ==
    IF provider.status # "approved" THEN Fail("create_stay", Forbidden)
    ELSE IF fkEnforced /\ ~\E t \in propertyTypes : t.id = stay_in.property_type_id
         THEN Fail("create_stay", ServerError)       \* flush of the stay row
    ELSE IF LinkRowsRefused(stay_in.amenity_ids, {a.id : a \in amenities})
         THEN Fail("create_stay", ServerError)       \* the one commit
    ELSE LET stay == [id |-> nextId["stay"], provider_id |-> provider.id,
                      property_type_id |-> stay_in.property_type_id,
                      price_per_night |-> stay_in.price_per_night,
                      service_fee |-> stay_in.service_fee,
                      tax_percent |-> stay_in.tax_percent,
                      is_featured |-> FALSE, rating_avg |-> Zero,
                      review_count |-> 0]
         IN
         /\ nextId["stay"] <= MaxStays
         /\ stays' = stays \cup {stay}
         /\ stayAmenity' = stayAmenity \cup
                {[stay_id |-> nextId["stay"], amenity_id |-> a]
                    : a \in Range(stay_in.amenity_ids)}
         /\ nextId' = Bump("stay")
         /\ RespondWith("create_stay", OK,
                        <<StayRead(stay, Sent(SimpleBreakdown(stay)))>>)
         /\ UNCHANGED <<fkEnforced, accountVars, taxVars, stayImages, reviews, carVars>>

\* POST /providers/stays/
CreateStayRoute(tok, stay_in) ==
    /\ caller' = Caller(tok)
    /\ IF ProviderGate(tok) # OK THEN Fail("create_stay", ProviderGate(tok))
       ELSE create_stay(stay_in, ProviderFor(tok))

\* services.update_stay: every field of StayCreate is assigned to the row.
\* The last of them, amenity_ids, is no attribute of Stay: the model class
\* refuses the assignment (ValueError, nothing committed) unless the installed
\* SQLModel lets it through, so both outcomes are kept.
update_stay(stay_id, stay_in, provider) ==
    IF ~OwnsStay(provider, stay_id) THEN Fail("update_stay", NotFound)
    ELSE \/ Fail("update_stay", ServerError)
         \/ IF fkEnforced /\ ~\E t \in propertyTypes : t.id = stay_in.property_type_id
            THEN Fail("update_stay", ServerError)
            ELSE /\ stays' = {IF s.id = stay_id
                                THEN [s EXCEPT
                                        !.price_per_night = stay_in.price_per_night,
                                        !.service_fee = stay_in.service_fee,
                                        !.tax_percent = stay_in.tax_percent,
                                        !.property_type_id = stay_in.property_type_id]
                                ELSE s : s \in stays}
                 /\ Respond("update_stay", OK)
                 /\ UNCHANGED <<fkEnforced, accountVars, taxVars, stayAmenity,
                                stayImages, reviews, carVars, nextId>>

\* PUT /providers/stays/{stay_id}
UpdateStayRoute(tok, stay_id, stay_in) ==
    /\ caller' = Caller(tok)
    /\ IF ProviderGate(tok) # OK THEN Fail("update_stay", ProviderGate(tok))
       ELSE update_stay(stay_id, stay_in, ProviderFor(tok))

\* delete_stay answering a missing stay with success and no change
delete_stay_silent(stay_id, provider) ==
    IF ~OwnsStay(provider, stay_id)
    THEN Respond("delete_stay", OK) /\ UNCHANGED <<fkEnforced, dbVars>>
    ELSE /\ stays' = {s \in stays : s.id # stay_id}
         /\ stayImages' = {i \in stayImages : i.stay_id # stay_id}
         /\ reviews' = {r \in reviews : r.stay_id # stay_id}
         /\ stayAmenity' = {l \in stayAmenity : l.stay_id # stay_id}
         /\ Respond("delete_stay", OK)
         /\ UNCHANGED <<fkEnforced, accountVars, taxVars, carVars, nextId>>

\* services.delete_stay: images and reviews cascade ("all, delete"), the
\* amenity link rows go with the row they belong to.
delete_stay(stay_id, provider) ==
    IF ~OwnsStay(provider, stay_id) THEN Fail("delete_stay", NotFound)
    ELSE /\ stays' = {s \in stays : s.id # stay_id}
         /\ stayImages' = {i \in stayImages : i.stay_id # stay_id}
         /\ reviews' = {r \in reviews : r.stay_id # stay_id}
         /\ stayAmenity' = {l \in stayAmenity : l.stay_id # stay_id}
         /\ Respond("delete_stay", OK)
         /\ UNCHANGED <<fkEnforced, accountVars, taxVars, carVars, nextId>>

\* DELETE /providers/stays/{stay_id}
DeleteStayRoute(tok, stay_id) ==
    /\ caller' = Caller(tok)
    /\ IF ProviderGate(tok) # OK THEN Fail("delete_stay", ProviderGate(tok))
       ELSE delete_stay(stay_id, ProviderFor(tok))

\* services.upload_stay_image
upload_stay_image(stay_id, provider) ==
    IF ~OwnsStay(provider, stay_id) THEN Fail("upload_stay_image", NotFound)
    ELSE /\ nextId["stayimage"] <= MaxImages
         /\ stayImages' = stayImages \cup
                {[id |-> nextId["stayimage"], stay_id |-> stay_id]}
         /\ nextId' = Bump("stayimage")
         /\ Respond("upload_stay_image", OK)
         /\ UNCHANGED <<fkEnforced, accountVars, taxVars, stays, stayAmenity,
                        reviews, carVars>>

\* POST /providers/stays/{stay_id}/images
UploadStayImageRoute(tok, stay_id) ==
    /\ caller' = Caller(tok)
    /\ IF ProviderGate(tok) # OK THEN Fail("upload_stay_image", ProviderGate(tok))
       ELSE upload_stay_image(stay_id, ProviderFor(tok))

\* services.assign_amenities: "select(StayAmenity).where(...).delete()" calls
\* a method a Select does not have, so the owner's request ends in an
\* AttributeError before anything is written.
assign_amenities(stay_id, amenity_ids, provider) ==
    IF ~OwnsStay(provider, stay_id) THEN Fail("assign_amenities", NotFound)
    ELSE Fail("assign_amenities", ServerError)

\* POST /providers/stays/{stay_id}/amenities
AssignAmenitiesRoute(tok, stay_id, amenity_ids) ==
    /\ caller' = Caller(tok)
    /\ IF ProviderGate(tok) # OK THEN Fail("assign_amenities", ProviderGate(tok))
       ELSE assign_amenities(stay_id, amenity_ids, ProviderFor(tok))

\* services.add_review: the review is inserted and committed first, with no
\* lookup of the stay; only the stay's foreign key, where the store enforces
\* it, stops a review of a stay that does not exist.  Then the aggregates
\* are recomputed over every review row of stay_id and stored on the stay,
\* if there is one.
StayRatings == {4, 5}

ReviewsOf(rows, stay_id) == {r \in rows : r.stay_id = stay_id}

\* the aggregates kept the way add_car_review keeps them: the stored count
\* plus one and the running average
add_review_incremental(stay_id, user, rating) ==
    IF fkEnforced /\ ~StayExists(stay_id) THEN Fail("add_review", ServerError)
    ELSE LET db_review == [id |-> nextId["review"], stay_id |-> stay_id,
                           user_id |-> user.id, rating |-> rating]
         IN  /\ nextId["review"] <= MaxReviews
             /\ reviews' = reviews \cup {db_review}
             /\ stays' = {IF s.id = stay_id
                            THEN [s EXCEPT
                                    !.rating_avg =
                                        Rat(RoundTenths(
                                                s.rating_avg.num * s.review_count
                                                    + rating * s.rating_avg.den,
                                                s.rating_avg.den * (s.review_count + 1)),
                                            10),
                                    !.review_count = s.review_count + 1]
                            ELSE s : s \in stays}
             /\ nextId' = Bump("review")
             /\ Respond("add_review", OK)
             /\ UNCHANGED <<fkEnforced, accountVars, taxVars, stayAmenity,
                            stayImages, carVars>>

add_review(stay_id, user, rating) ==
    IF fkEnforced /\ ~StayExists(stay_id) THEN Fail("add_review", ServerError)
    ELSE LET db_review == [id |-> nextId["review"], stay_id |-> stay_id,
                           user_id |-> user.id, rating |-> rating]
             all == ReviewsOf(reviews \cup {db_review}, stay_id)
             review_count == Cardinality(all)
             avg_tenths == RoundTenths(SumRatings(all), review_count)
         IN  /\ nextId["review"] <= MaxReviews
             /\ reviews' = reviews \cup {db_review}
             /\ stays' = {IF s.id = stay_id
                            THEN [s EXCEPT !.rating_avg = Rat(avg_tenths, 10),
                                           !.review_count = review_count]
                            ELSE s : s \in stays}
             /\ nextId' = Bump("review")
             /\ Respond("add_review", OK)
             /\ UNCHANGED <<fkEnforced, accountVars, taxVars, stayAmenity,
                            stayImages, carVars>>

\* POST /stays/{stay_id}/reviews
AddReviewRoute(tok, stay_id, rating) ==
    /\ caller' = Caller(tok)
    /\ IF require_role(tok, "customer") # OK
       THEN Fail("add_review", require_role(tok, "customer"))
       ELSE add_review(stay_id, get_current_user(tok), rating)

\* The same handler at the grain of its awaits, for requests served
\* concurrently, each with its own session: up to MaxInFlight of them are
\* suspended between two awaits.
MaxInFlight == 2
RequestIds == 1..MaxInFlight
Suspended(rid) == \E r \in inflight : r.id = rid

\* add_review up to its first commit: the review row is inserted
BeginAddReview(rid, tok, stay_id, rating) ==
    /\ ~Suspended(rid)
    /\ require_role(tok, "customer") = OK
    /\ ~(fkEnforced /\ ~StayExists(stay_id))
    /\ nextId["review"] <= MaxReviews
    /\ reviews' = reviews \cup
            {[id |-> nextId["review"], stay_id |-> stay_id,
              user_id |-> get_current_user(tok).id, rating |-> rating]}
    /\ nextId' = Bump("review")
    /\ inflight' = inflight \cup
            {[id |-> rid, op |-> "add_review", pc |-> "aggregate",
              stay_id |-> stay_id, user_id |-> get_current_user(tok).id]}
    /\ UNCHANGED <<fkEnforced, accountVars, taxVars, stays, stayAmenity,
                   stayImages, carVars, searchVars, caller, last>>

\* add_review: the SELECT of avg(rating) and count(id) over the stay's reviews
ReadAggregates(rid) ==
    \E r \in inflight :
        /\ r.id = rid /\ r.op = "add_review" /\ r.pc = "aggregate"
        /\ LET all == ReviewsOf(reviews, r.stay_id)
           IN  inflight' = (inflight \ {r}) \cup
                    {[id |-> rid, op |-> "add_review", pc |-> "write",
                      stay_id |-> r.stay_id, user_id |-> r.user_id,
                      review_count |-> Cardinality(all),
                      avg_tenths |-> RoundTenths(SumRatings(all), Cardinality(all))]}
        /\ UNCHANGED <<fkEnforced, dbVars, searchVars, caller, last>>

\* add_review: the stay is looked up and, if there is one, the aggregates
\* read before are stored on it and committed
WriteAggregates(rid) ==
    \E r \in inflight :
        /\ r.id = rid /\ r.op = "add_review" /\ r.pc = "write"
        /\ stays' = {IF s.id = r.stay_id
                       THEN [s EXCEPT !.rating_avg = Rat(r.avg_tenths, 10),
                                      !.review_count = r.review_count]
                       ELSE s : s \in stays}
        /\ inflight' = inflight \ {r}
        /\ last' = [op |-> "add_review", status |-> OK]
        /\ caller' = r.user_id
        /\ UNCHANGED <<fkEnforced, accountVars, taxVars, stayAmenity, stayImages,
                       reviews, carVars, nextId, searchVars>>

\* ------------------------------------------------------------------
\* app/features/cars
\* ------------------------------------------------------------------
CarIds == 1..MaxCars
FeatureIdLists == {<<>>, <<1>>, <<2>>}
CarCreate == [price_per_day : Prices, car_type_id : TaxIds,
              feature_ids : FeatureIdLists]
\* CarUpdate: every field is optional; an unsent one is left out of the update
CarUpdate == [price_per_day : {Unset, Sent(200)},
              is_featured : {Unset, Sent(TRUE)},
              feature_ids : {Unset} \cup {Sent(l) : l \in FeatureIdLists}]

CarExists(car_id) == \E c \in cars : c.id = car_id
CarRow(car_id) == CHOOSE c \in cars : c.id = car_id
OwnsCar(provider_id, car_id) ==
    \E c \in cars : c.id = car_id /\ c.provider_id = provider_id

\* services.create_car: the car row is committed on its own, then the
\* feature links in a second commit.
create_car(car_in, provider_id) ==
    IF fkEnforced /\ ~\E t \in carTypes : t.id = car_in.car_type_id
    THEN Fail("create_car", ServerError)
    ELSE /\ nextId["car"] <= MaxCars
         /\ cars' = cars \cup
                {[id |-> nextId["car"], provider_id |-> provider_id,
                  car_type_id |-> car_in.car_type_id,
                  price_per_day |-> car_in.price_per_day,
                  is_featured |-> FALSE, rating_avg |-> Zero, review_count |-> 0]}
         /\ nextId' = Bump("car")
         /\ IF LinkRowsRefused(car_in.feature_ids, {f.id : f \in carFeatures})
            THEN /\ Respond("create_car", ServerError)
                 /\ UNCHANGED carFeatureLink
            ELSE /\ carFeatureLink' = carFeatureLink \cup
                        {[car_id |-> nextId["car"], feature_id |-> f]
                            : f \in Range(car_in.feature_ids)}
                 /\ Respond("create_car", OK)
         /\ UNCHANGED <<fkEnforced, accountVars, taxVars, stayVars, carImages,
                        carReviews>>

\* POST /providers/cars/
CreateCarRoute(tok, car_in) ==
    /\ caller' = Caller(tok)
    /\ IF ProviderGate(tok) # OK THEN Fail("create_car", ProviderGate(tok))
       ELSE create_car(car_in, ProviderFor(tok).id)

\* update_car adding the links sent to the links the car has
update_car_adding_links(car_id, car_in, provider_id) ==
    IF ~OwnsCar(provider_id, car_id) THEN Fail("update_car", NotFound)
    ELSE LET car == CarRow(car_id)
             updated == [car EXCEPT
                 !.price_per_day = IF car_in.price_per_day = Unset
                                   THEN @ ELSE car_in.price_per_day[1],
                 !.is_featured = IF car_in.is_featured = Unset
                                 THEN @ ELSE car_in.is_featured[1]]
             feature_ids == car_in.feature_ids[1]
         IN  /\ cars' = (cars \ {car}) \cup {updated}
             /\ IF car_in.feature_ids = Unset
                THEN /\ Respond("update_car", OK)
                     /\ UNCHANGED carFeatureLink
                ELSE IF LinkRowsRefused(feature_ids, {f.id : f \in carFeatures})
                THEN /\ Respond("update_car", ServerError)
                     /\ UNCHANGED carFeatureLink
                ELSE /\ carFeatureLink' = carFeatureLink \cup
                          {[car_id |-> car_id, feature_id |-> f]
                              : f \in Range(feature_ids)}
                     /\ Respond("update_car", OK)
             /\ UNCHANGED <<fkEnforced, accountVars, taxVars, stayVars, carImages,
                            carReviews, nextId>>

\* services.update_car: the sent fields are committed, then, when
\* feature_ids was sent, the links are replaced in a second commit.
update_car(car_id, car_in, provider_id) ==
    IF ~OwnsCar(provider_id, car_id) THEN Fail("update_car", NotFound)
    ELSE LET car == CarRow(car_id)
             updated == [car EXCEPT
                 !.price_per_day = IF car_in.price_per_day = Unset
                                   THEN @ ELSE car_in.price_per_day[1],
                 !.is_featured = IF car_in.is_featured = Unset
                                 THEN @ ELSE car_in.is_featured[1]]
             feature_ids == car_in.feature_ids[1]
         IN  /\ cars' = (cars \ {car}) \cup {updated}
             /\ IF car_in.feature_ids = Unset
                THEN /\ Respond("update_car", OK)
                     /\ UNCHANGED carFeatureLink
                ELSE IF LinkRowsRefused(feature_ids, {f.id : f \in carFeatures})
                THEN /\ Respond("update_car", ServerError)
                     /\ UNCHANGED carFeatureLink
                ELSE /\ carFeatureLink' =
                          {l \in carFeatureLink : l.car_id # car_id} \cup
                          {[car_id |-> car_id, feature_id |-> f]
                              : f \in Range(feature_ids)}
                     /\ Respond("update_car", OK)
             /\ UNCHANGED <<fkEnforced, accountVars, taxVars, stayVars, carImages,
                            carReviews, nextId>>

\* PUT /providers/cars/{car_id}
UpdateCarRoute(tok, car_id, car_in) ==
    /\ caller' = Caller(tok)
    /\ IF ProviderGate(tok) # OK THEN Fail("update_car", ProviderGate(tok))
       ELSE update_car(car_id, car_in, ProviderFor(tok).id)

\* services.delete_car: images and reviews cascade ("all, delete-orphan")
delete_car(car_id, provider_id) ==
    IF ~OwnsCar(provider_id, car_id) THEN Fail("delete_car", NotFound)
    ELSE /\ cars' = {c \in cars : c.id # car_id}
         /\ carImages' = {i \in carImages : i.car_id # car_id}
         /\ carReviews' = {r \in carReviews : r.car_id # car_id}
         /\ carFeatureLink' = {l \in carFeatureLink : l.car_id # car_id}
         /\ Respond("delete_car", OK)
         /\ UNCHANGED <<fkEnforced, accountVars, taxVars, stayVars, nextId>>

\* DELETE /providers/cars/{car_id}
DeleteCarRoute(tok, car_id) ==
    /\ caller' = Caller(tok)
    /\ IF ProviderGate(tok) # OK THEN Fail("delete_car", ProviderGate(tok))
       ELSE delete_car(car_id, ProviderFor(tok).id)

\* services.upload_car_image
upload_car_image(car_id, provider_id) ==
    IF ~OwnsCar(provider_id, car_id) THEN Fail("upload_car_image", NotFound)
    ELSE /\ nextId["carimage"] <= MaxImages
         /\ carImages' = carImages \cup
                {[id |-> nextId["carimage"], car_id |-> car_id]}
         /\ nextId' = Bump("carimage")
         /\ Respond("upload_car_image", OK)
         /\ UNCHANGED <<fkEnforced, accountVars, taxVars, stayVars, cars,
                        carFeatureLink, carReviews>>

\* POST /providers/cars/{car_id}/images
UploadCarImageRoute(tok, car_id) ==
    /\ caller' = Caller(tok)
    /\ IF ProviderGate(tok) # OK THEN Fail("upload_car_image", ProviderGate(tok))
       ELSE upload_car_image(car_id, ProviderFor(tok).id)

\* services.add_car_review: the running average is updated in place
CarRatings == {3, 4, 5}

\* the running average taken as the mean of the old average and the new rating
add_car_review_unweighted(car_id, user, rating) ==
    IF ~CarExists(car_id) THEN Fail("add_car_review", NotFound)
    ELSE LET car == CarRow(car_id)
             review == [id |-> nextId["carreview"], car_id |-> car_id,
                        user_id |-> user.id, rating |-> rating]
             review_count == car.review_count + 1
             rating_avg ==
                 IF car.review_count = 0 THEN RatOf(review.rating)
                 ELSE RatDiv(RatAdd(car.rating_avg, RatOf(review.rating)), 2)
         IN  /\ nextId["carreview"] <= MaxReviews
             /\ carReviews' = carReviews \cup {review}
             /\ cars' = (cars \ {car}) \cup
                    {[car EXCEPT !.review_count = review_count,
                                 !.rating_avg = rating_avg]}
             /\ nextId' = Bump("carreview")
             /\ Respond("add_car_review", OK)
             /\ UNCHANGED <<fkEnforced, accountVars, taxVars, stayVars,
                            carFeatureLink, carImages>>

add_car_review(car_id, user, rating) ==
    IF ~CarExists(car_id) THEN Fail("add_car_review", NotFound)
    ELSE LET car == CarRow(car_id)
             review == [id |-> nextId["carreview"], car_id |-> car_id,
                        user_id |-> user.id, rating |-> rating]
             review_count == car.review_count + 1
             rating_avg ==
                 Rat(car.rating_avg.num * (review_count - 1)
                        + review.rating * car.rating_avg.den,
                     car.rating_avg.den * review_count)
         IN  /\ nextId["carreview"] <= MaxReviews
             /\ carReviews' = carReviews \cup {review}
             /\ cars' = (cars \ {car}) \cup
                    {[car EXCEPT !.review_count = review_count,
                                 !.rating_avg = rating_avg]}
             /\ nextId' = Bump("carreview")
             /\ Respond("add_car_review", OK)
             /\ UNCHANGED <<fkEnforced, accountVars, taxVars, stayVars,
                            carFeatureLink, carImages>>

\* add_car_review at the grain of its awaits: up to the SELECT of the car,
\* whose row the session keeps
BeginAddCarReview(rid, user_id, car_id, rating) ==
    /\ ~Suspended(rid)
    /\ \E u \in users : u.id = user_id
    /\ CarExists(car_id)
    /\ inflight' = inflight \cup
            {[id |-> rid, op |-> "add_car_review", pc |-> "commit",
              car_id |-> car_id, user_id |-> user_id, rating |-> rating,
              car |-> CarRow(car_id)]}
    /\ UNCHANGED <<fkEnforced, dbVars, searchVars, caller, last>>

\* the commit as UPDATE car SET review_count = review_count + 1 would make
\* it: the aggregates are computed from the row as it is at the commit
CommitAddCarReviewInPlace(rid) ==
    \E r \in inflight :
        /\ r.id = rid /\ r.op = "add_car_review" /\ r.pc = "commit"
        /\ CarExists(r.car_id)
        /\ nextId["carreview"] <= MaxReviews
        /\ LET car == CarRow(r.car_id)
               review_count == car.review_count + 1
               rating_avg ==
                   Rat(car.rating_avg.num * (review_count - 1)
                          + r.rating * car.rating_avg.den,
                       car.rating_avg.den * review_count)
           IN  /\ carReviews' = carReviews \cup
                    {[id |-> nextId["carreview"], car_id |-> r.car_id,
                      user_id |-> r.user_id, rating |-> r.rating]}
               /\ cars' = {IF c.id = r.car_id
                              THEN [c EXCEPT !.review_count = review_count,
                                             !.rating_avg = rating_avg]
                              ELSE c : c \in cars}
        /\ nextId' = Bump("carreview")
        /\ inflight' = inflight \ {r}
        /\ last' = [op |-> "add_car_review", status |-> OK]
        /\ caller' = r.user_id
        /\ UNCHANGED <<fkEnforced, accountVars, taxVars, stayVars,
                       carFeatureLink, carImages, searchVars>>

\* add_car_review from the row it read to its commit: the review is inserted
\* and review_count and rating_avg, computed from the row read, are written
CommitAddCarReview(rid) ==
    \E r \in inflight :
        /\ r.id = rid /\ r.op = "add_car_review" /\ r.pc = "commit"
        /\ CarExists(r.car_id)
        /\ nextId["carreview"] <= MaxReviews
        /\ LET review_count == r.car.review_count + 1
               rating_avg ==
                   Rat(r.car.rating_avg.num * (review_count - 1)
                          + r.rating * r.car.rating_avg.den,
                       r.car.rating_avg.den * review_count)
           IN  /\ carReviews' = carReviews \cup
                    {[id |-> nextId["carreview"], car_id |-> r.car_id,
                      user_id |-> r.user_id, rating |-> r.rating]}
               /\ cars' = {IF c.id = r.car_id
                              THEN [c EXCEPT !.review_count = review_count,
                                             !.rating_avg = rating_avg]
                              ELSE c : c \in cars}
        /\ nextId' = Bump("carreview")
        /\ inflight' = inflight \ {r}
        /\ last' = [op |-> "add_car_review", status |-> OK]
        /\ caller' = r.user_id
        /\ UNCHANGED <<fkEnforced, accountVars, taxVars, stayVars,
                       carFeatureLink, carImages, searchVars>>

\* CarReviewCreate: rating is a Field(ge=1, le=5); a body outside is refused
\* when the object is built (422 from the route).  ReviewCreate of the stays
\* declares a plain int.
Unprocessable == 422
CarReviewCreate(rating) == rating \in 1..5

\* POST /cars/{car_id}/reviews: guarded by require_role("user")
AddCarReviewRoute(tok, car_id, rating) ==
    /\ caller' = Caller(tok)
    /\ IF require_role(tok, "user") # OK
       THEN Fail("add_car_review", require_role(tok, "user"))
       ELSE IF ~CarReviewCreate(rating) THEN Fail("add_car_review", Unprocessable)
       ELSE add_car_review(car_id, get_current_user(tok), rating)

\* services.add_car_review called with an account directly (no role of
\* UserRole passes the route's guard) and a review_in built from rating
AddCarReviewCall(user_id, car_id, rating) ==
    /\ \E u \in users : u.id = user_id
    /\ caller' = user_id
    /\ IF ~CarReviewCreate(rating) THEN Fail("add_car_review", Unprocessable)
       ELSE add_car_review(car_id, CHOOSE u \in users : u.id = user_id, rating)

\* ------------------------------------------- stays/services.py search_stays
MaxPage == 2
MaxPageSize == 2
SortKeys == {"price_asc", "price_desc", "rating_desc", "popularity", "featured"}
OtherSortKey == "newest"

\* The parameters of services.search_stays.  city, country, rooms, adults and
\* children filter like price_min does, on columns the model does not carry.
StayQueries ==
    [kind : {"search_stays"},
     price_min : {Unset, Sent(200)}, price_max : {Unset, Sent(100)},
     min_rating : {Unset, Sent(4)}, amenities : {Unset, Sent(<<1>>)},
     sort_by : SortKeys \cup {OtherSortKey},
     page : 1..MaxPage, page_size : 1..MaxPageSize]

\* search_stays called for one page of the unfiltered table: page is an
\* unvalidated int, from PagesBelow pages before the first to one past MaxPage
PagesBelow == 2
PageQueries ==
    [kind : {"search_stays"},
     price_min : {Unset}, price_max : {Unset},
     min_rating : {Unset}, amenities : {Unset},
     sort_by : {"price_asc", "price_desc"},
     page : (1 - PagesBelow)..(MaxPage + 1), page_size : 1..MaxPageSize]

\* search_stays called with check_in and check_out, which it accepts
DatedQueries ==
    [kind : {"search_stays"},
     price_min : {Unset}, price_max : {Unset},
     min_rating : {Unset}, amenities : {Unset},
     sort_by : {"price_asc"}, page : {1}, page_size : {MaxPageSize},
     check_in : {Unset, Sent(1)}, check_out : {Unset, Sent(3)}]

\* GET /stays/: the query string of the route
RouteQueries ==
    [kind : {"GET /stays"}, property_type_id : {Unset, Sent(1)},
     sort_by : {"price_asc"}, page : {1}, page_size : {MaxPageSize}]

\* The parameters of cars/services.list_cars
CarQueries ==
    [kind : {"list_cars"},
     min_price : {Unset, Sent(200)}, max_price : {Unset, Sent(100)},
     car_type_id : {Unset, Sent(1)}]

\* The rows a SELECT without ORDER BY returns come in an order the store
\* chooses: every order of the matching rows.
Orders(rows) ==
    {seq \in [1..Cardinality(rows) -> rows] :
        \A i, j \in 1..Cardinality(rows) : i # j => seq[i] # seq[j]}

RatLess(a, b) == a.num * b.den < b.num * a.den

\* the WHERE clauses of search_stays; the amenities parameter adds none
StayMatches(s, q) ==
    /\ q.price_min # Unset => s.price_per_night >= q.price_min[1]
    /\ q.price_max # Unset => s.price_per_night <= q.price_max[1]
    /\ q.min_rating # Unset =>
            s.rating_avg.num >= q.min_rating[1] * s.rating_avg.den

\* list.sort(key=..., reverse=...): a comes strictly before b
Before(a, b, sort_by) ==
    CASE sort_by = "price_asc" -> a.price_per_night < b.price_per_night
      [] sort_by = "price_desc" -> a.price_per_night > b.price_per_night
      [] sort_by = "rating_desc" -> RatLess(b.rating_avg, a.rating_avg)
      [] sort_by = "popularity" -> a.review_count > b.review_count

RECURSIVE Insert(_, _, _)
Insert(x, sorted, sort_by) ==
    IF sorted = <<>> THEN <<x>>
    ELSE IF Before(x, Head(sorted), sort_by) THEN <<x>> \o sorted
    ELSE <<Head(sorted)>> \o Insert(x, Tail(sorted), sort_by)

\* list.sort is stable: rows with equal keys keep their order
RECURSIVE StableSort(_, _)
StableSort(rows, sort_by) ==
    IF rows = <<>> THEN <<>>
    ELSE Insert(rows[Len(rows)],
                StableSort(SubSeq(rows, 1, Len(rows) - 1), sort_by), sort_by)

IsFeatured(s) == s.is_featured

\* the chain with reverse=True forgotten: every key sorts ascending
SortStaysAscending(rows, sort_by) ==
    IF sort_by = "price_asc" \/ sort_by = "price_desc"
    THEN StableSort(rows, "price_asc")
    ELSE rows

\* the if/elif chain on sort_by: no branch for any other key
SortStays(rows, sort_by) ==
    IF sort_by = "price_asc" THEN StableSort(rows, "price_asc")
    ELSE IF sort_by = "price_desc" THEN StableSort(rows, "price_desc")
    ELSE IF sort_by = "rating_desc" THEN StableSort(rows, "rating_desc")
    ELSE IF sort_by = "popularity" THEN StableSort(rows, "popularity")
    ELSE IF sort_by = "featured" THEN SelectSeq(rows, IsFeatured)
    ELSE rows

\* Python's seq[start:end]
SliceIndex(i, n) ==
    IF i < 0 THEN (IF i + n < 0 THEN 0 ELSE i + n)
    ELSE IF i > n THEN n ELSE i
PySlice(seq, start, end) ==
    LET lo == SliceIndex(start, Len(seq))
        hi == SliceIndex(end, Len(seq))
    IN  IF lo >= hi THEN <<>> ELSE SubSeq(seq, lo + 1, hi)

\* the window counted from page 0: start = page * page_size
PaginateFromZero(rows, page, page_size) ==
    PySlice(rows, page * page_size, page * page_size + page_size)

Paginate(rows, page, page_size) ==
    LET start == (page - 1) * page_size
    IN  PySlice(rows, start, start + page_size)

search_stays(q, scan) == Paginate(SortStays(scan, q.sort_by), q.page, q.page_size)

\* the loop that maps the rows of the page to StayRead
StayReads(rows) == [i \in 1..Len(rows) |-> StayRead(rows[i], Sent(SimpleBreakdown(rows[i])))]

\* services.search_stays called with the parameters it declares
SearchStays ==
    /\ query.kind = "search_stays"
    /\ \E scan \in Orders({s \in stays : StayMatches(s, query)}) :
            found' = [query |-> query, scan |-> scan,
                      items |-> search_stays(query, scan),
                      results |-> StayReads(search_stays(query, scan))]
    /\ query' = NoQuery
    /\ last' = [op |-> "search_stays", status |-> OK]
    /\ caller' = 0
    /\ UNCHANGED <<fkEnforced, dbVars, inflight>>

\* GET /stays/ calls services.search_stays(..., property_type_id=...), a
\* keyword the service does not declare: TypeError, whatever the value.
SearchStaysRoute ==
    /\ query \in RouteQueries
    /\ query' = NoQuery
    /\ found' = [query |-> query, scan |-> <<>>, items |-> <<>>, results |-> <<>>]
    /\ last' = [op |-> "GET /stays", status |-> ServerError]
    /\ caller' = 0
    /\ UNCHANGED <<fkEnforced, dbVars, inflight>>

\* ------------------------------- stays/services.py get_single_stay_detail
\* round(x, 2): the nearest hundredth.  A float that stands for a value
\* halfway between two hundredths lies on either side of it, so both
\* neighbours are outcomes.
Round2(x) ==
    LET q == (100 * x.num) \div x.den
        r == (100 * x.num) % x.den
    IN  IF 2 * r < x.den THEN {Rat(q, 100)}
        ELSE IF 2 * r > x.den THEN {Rat(q + 1, 100)}
        ELSE {Rat(q, 100), Rat(q + 1, 100)}

\* the breakdown as if rooms were always 1
calculate_price_breakdown_one_room(stay, check_in, check_out, rooms) ==
    LET nights == check_out - check_in
        subtotal == RatOf(stay.price_per_night * nights)
        service_fee == RatOf(stay.service_fee)
        taxes == RatMul(subtotal, RatDiv(stay.tax_percent, 100))
        total == RatAdd(RatAdd(subtotal, service_fee), taxes)
    IN  IF nights <= 0 THEN {[status |-> BadRequest]}
        ELSE {[status |-> OK, body |-> b] :
                b \in [subtotal : Round2(subtotal),
                       service_fee : Round2(service_fee),
                       taxes : Round2(taxes), total : Round2(total)]}

\* services.calculate_price_breakdown: the outcomes of one call, the
\* HTTPException or the dict it returns.  Dates are day numbers.
calculate_price_breakdown(stay, check_in, check_out, rooms) ==
    LET nights == check_out - check_in
        subtotal == RatOf(stay.price_per_night * nights * rooms)
        service_fee == RatOf(stay.service_fee)
        taxes == RatMul(subtotal, RatDiv(stay.tax_percent, 100))
        total == RatAdd(RatAdd(subtotal, service_fee), taxes)
    IN  IF nights <= 0 THEN {[status |-> BadRequest]}
        ELSE {[status |-> OK, body |-> b] :
                b \in [subtotal : Round2(subtotal),
                       service_fee : Round2(service_fee),
                       taxes : Round2(taxes), total : Round2(total)]}

\* GET /stays/{stay_id}: check_in and check_out are optional dates, rooms is
\* an int the route does not validate
MaxDay == 4
Days == 1..MaxDay
RoomCounts == {-1, 0, 1, 2}
DetailQueries ==
    [kind : {"get_stay_detail"}, stay_id : StayIds,
     check_in : {Unset} \cup {Sent(d) : d \in Days},
     check_out : {Unset} \cup {Sent(d) : d \in Days},
     rooms : RoomCounts]

\* the breakdown get_single_stay_detail attaches without the test on both dates
get_single_stay_detail_any_date(stay, check_in, check_out, rooms) ==
    IF check_in # Unset
    THEN {IF o.status = OK THEN [status |-> OK, body |-> StayRead(stay, Sent(o.body))]
          ELSE o : o \in calculate_price_breakdown(
                        stay, check_in[1],
                        IF check_out = Unset THEN check_in[1] + 1 ELSE check_out[1],
                        rooms)}
    ELSE {[status |-> OK, body |-> StayRead(stay, Unset)]}

\* services.get_single_stay_detail once the stay is found: StayRead.from_orm
\* leaves price_breakdown None, the calculator fills it in
get_single_stay_detail(stay, check_in, check_out, rooms) ==
    IF check_in # Unset /\ check_out # Unset
    THEN {IF o.status = OK THEN [status |-> OK, body |-> StayRead(stay, Sent(o.body))]
          ELSE o : o \in calculate_price_breakdown(
                        stay, check_in[1], check_out[1], rooms)}
    ELSE {[status |-> OK, body |-> StayRead(stay, Unset)]}

\* GET /stays/{stay_id} -> services.get_single_stay_detail
GetStayDetail ==
    /\ query.kind = "get_stay_detail"
    /\ IF ~StayExists(query.stay_id)
       THEN /\ last' = [op |-> "get_stay_detail", status |-> NotFound]
            /\ found' = [NoResult EXCEPT !.query = query]
       ELSE \E o \in get_single_stay_detail(StayRow(query.stay_id), query.check_in,
                                            query.check_out, query.rooms) :
                /\ last' = [op |-> "get_stay_detail", status |-> o.status]
                /\ found' = [NoResult EXCEPT
                                !.query = query,
                                !.results = IF o.status = OK THEN <<o.body>>
                                            ELSE <<>>]
    /\ query' = NoQuery
    /\ caller' = 0
    /\ UNCHANGED <<fkEnforced, dbVars, inflight>>

\* the WHERE clauses of cars/services.list_cars
CarMatches(c, q) ==
    /\ q.min_price # Unset => c.price_per_day >= q.min_price[1]
    /\ q.max_price # Unset => c.price_per_day <= q.max_price[1]
    /\ q.car_type_id # Unset => c.car_type_id = q.car_type_id[1]

ListCars ==
    /\ query \in CarQueries
    /\ \E scan \in Orders({c \in cars : CarMatches(c, query)}) :
            found' = [query |-> query, scan |-> scan, items |-> scan,
                      results |-> scan]
    /\ query' = NoQuery
    /\ last' = [op |-> "list_cars", status |-> OK]
    /\ caller' = 0
    /\ UNCHANGED <<fkEnforced, dbVars, inflight>>

\* ------------------------------------------------- app/core/db.py init_db
Init ==
    /\ fkEnforced \in BOOLEAN
    /\ inflight = {}
    /\ NoSearch
    /\ users = {[id |-> 1, email |-> AdminEmail, role |-> "admin"]}
    /\ providers = {}
    /\ amenities = {} /\ propertyTypes = {} /\ carTypes = {} /\ carFeatures = {}
    /\ stays = {} /\ stayAmenity = {} /\ stayImages = {} /\ reviews = {}
    /\ cars = {} /\ carFeatureLink = {} /\ carImages = {} /\ carReviews = {}
    /\ nextId = [t \in Tables |-> IF t = "user" THEN 2 ELSE 1]
    /\ last = [op |-> "init_db", status |-> OK]

UserIds == 1..MaxUsers
ProviderIds == 1..MaxProviders

\* ------------------------------------------------------------------
\* Spec: accounts, provider profiles and their administration, from the
\* database init_db leaves behind.
\* ------------------------------------------------------------------
Next ==
    \/ \E e \in Emails, r \in UserRole : Register(e, r)
    \/ \E t \in Emails : DeleteMe(t)
    \/ \E t \in Emails : CreateProvider(t)
    \/ \E t \in Emails, u \in UserIds, r \in UserRole : ChangeRole(t, u, r)
    \/ \E t \in Emails, u \in UserIds : DeleteUserAsAdmin(t, u)
    \/ \E t \in Emails, p \in ProviderIds, a \in BOOLEAN : ReviewProvider(t, p, a)

Spec == Init /\ [][Next]_vars

\* ------------------------------------------------------------------
\* Seeded databases.  Each is reached from Init by the requests named.
\* ------------------------------------------------------------------
AdminRow == [id |-> 1, email |-> AdminEmail, role |-> "admin"]
SeedTaxonomy ==
    /\ amenities = {[id |-> 1, name |-> "wifi"]}
    /\ propertyTypes = {[id |-> 1, name |-> "wifi"]}
    /\ carTypes = {[id |-> 1, name |-> "wifi"]}
    /\ carFeatures = {[id |-> 1, name |-> "wifi"]}
NoListings ==
    /\ stays = {} /\ stayAmenity = {} /\ stayImages = {} /\ reviews = {}
    /\ cars = {} /\ carFeatureLink = {} /\ carImages = {} /\ carReviews = {}

\* register a@x (customer), register b@x (provider), b@x creates its profile
InitAdmin ==
    /\ fkEnforced \in BOOLEAN
    /\ inflight = {}
    /\ NoSearch
    /\ users = {AdminRow, [id |-> 2, email |-> "a@x", role |-> "customer"],
                [id |-> 3, email |-> "b@x", role |-> "provider"]}
    /\ providers = {[id |-> 1, user_id |-> 3, status |-> "pending"]}
    /\ amenities = {} /\ propertyTypes = {} /\ carTypes = {} /\ carFeatures = {}
    /\ NoListings
    /\ nextId = [t \in Tables |-> CASE t = "user" -> 4 [] t = "provider" -> 2
                                    [] OTHER -> 1]
    /\ last = [op |-> "create_provider", status |-> OK]

AdminNext ==
    \/ \E t \in Emails : AdminListUsers(t)
    \/ \E t \in Emails : AdminListProviders(t)
    \/ \E t \in Emails, r \in UserRole : ChangeRole(t, 2, r)
    \/ \E t \in Emails : DeleteUserAsAdmin(t, 2)
    \/ \E t \in Emails, a \in BOOLEAN : ReviewProvider(t, 1, a)
    \/ \E t \in Emails, n \in TaxNames : CreateAmenity(t, n)
    \/ \E t \in Emails, i \in TaxIds : DeleteAmenity(t, i)
    \/ \E t \in Emails, n \in TaxNames : CreatePropertyType(t, n)
    \/ \E t \in Emails, i \in TaxIds : DeletePropertyType(t, i)
    \/ \E t \in Emails, n \in TaxNames : CreateCarType(t, n)
    \/ \E t \in Emails, i \in TaxIds : DeleteCarType(t, i)
    \/ \E t \in Emails, n \in TaxNames : CreateCarFeature(t, n)
    \/ \E t \in Emails, i \in TaxIds : DeleteCarFeature(t, i)

SpecAdmin == InitAdmin /\ [][AdminNext]_vars

\* register a@x and b@x as providers, both create their profile, the admin
\* approves b@x's, makes b@x a customer and creates one entry of every taxonomy
InitListings ==
    /\ fkEnforced \in BOOLEAN
    /\ inflight = {}
    /\ NoSearch
    /\ users = {AdminRow, [id |-> 2, email |-> "a@x", role |-> "provider"],
                [id |-> 3, email |-> "b@x", role |-> "customer"]}
    /\ providers = {[id |-> 1, user_id |-> 2, status |-> "pending"],
                    [id |-> 2, user_id |-> 3, status |-> "approved"]}
    /\ SeedTaxonomy
    /\ NoListings
    /\ nextId = [t \in Tables |-> CASE t = "user" -> 4 [] t = "provider" -> 3
                                    [] t \in {"amenity", "propertytype",
                                              "cartype", "carfeature"} -> 2
                                    [] OTHER -> 1]
    /\ last = [op |-> "create_car_feature", status |-> OK]

\* The requests of the seeded specifications that touch accounts: the admin
\* reviews a@x's profile and changes a@x's role.
SeedAccountNext ==
    \/ \E t \in Emails, a \in BOOLEAN : ReviewProvider(t, 1, a)
    \/ \E r \in {"customer", "provider"} : ChangeRole(AdminEmail, 2, r)

StaysNext ==
    \/ SeedAccountNext
    \/ \E t \in Emails, i \in StayCreate : CreateStayRoute(t, i)
    \/ \E t \in Emails, s \in StayIds, i \in StayCreate : UpdateStayRoute(t, s, i)
    \/ \E t \in Emails, s \in StayIds : DeleteStayRoute(t, s)
    \/ \E t \in Emails, s \in StayIds : UploadStayImageRoute(t, s)
    \/ \E t \in Emails, s \in StayIds, a \in AmenityIdLists :
            AssignAmenitiesRoute(t, s, a)

SpecStays == InitListings /\ [][StaysNext]_vars

CarsNext ==
    \/ SeedAccountNext
    \/ \E t \in Emails, i \in CarCreate : CreateCarRoute(t, i)
    \/ \E t \in Emails, c \in CarIds, i \in CarUpdate : UpdateCarRoute(t, c, i)
    \/ \E t \in Emails, c \in CarIds : DeleteCarRoute(t, c)
    \/ \E t \in Emails, c \in CarIds : UploadCarImageRoute(t, c)

SpecCars == InitListings /\ [][CarsNext]_vars

\* register a@x as provider, who creates a profile that the admin approves;
\* the admin makes a@x a customer and creates one entry of every taxonomy
InitReviews ==
    /\ fkEnforced \in BOOLEAN
    /\ inflight = {}
    /\ NoSearch
    /\ users = {AdminRow, [id |-> 2, email |-> "a@x", role |-> "customer"]}
    /\ providers = {[id |-> 1, user_id |-> 2, status |-> "approved"]}
    /\ SeedTaxonomy
    /\ NoListings
    /\ nextId = [t \in Tables |-> CASE t \in {"user"} -> 3
                                    [] t \in {"provider", "amenity", "propertytype",
                                              "cartype", "carfeature"} -> 2
                                    [] OTHER -> 1]
    /\ last = [op |-> "change_user_role", status |-> OK]

\* the listings of these specifications carry no amenity links
PlainStays == {i \in StayCreate : i.amenity_ids = <<>>}

StayReviewsNext ==
    \/ \E t \in Emails, i \in PlainStays : CreateStayRoute(t, i)
    \/ \E t \in Emails, s \in StayIds, i \in PlainStays : UpdateStayRoute(t, s, i)
    \/ \E t \in Emails, s \in StayIds : DeleteStayRoute(t, s)
    \/ \E t \in Emails, s \in StayIds, r \in StayRatings : AddReviewRoute(t, s, r)

SpecStayReviews == InitReviews /\ [][StayReviewsNext]_vars

\* the one car body of the review specifications
RaceCars == {i \in CarCreate : i.price_per_day = 100 /\ i.feature_ids = <<>>}

CarReviewsNext ==
    \/ \E t \in Emails, i \in RaceCars : CreateCarRoute(t, i)
    \/ \E t \in Emails, c \in CarIds : DeleteCarRoute(t, c)
    \/ \E t \in Emails, c \in CarIds, r \in CarRatings : AddCarReviewRoute(t, c, r)
    \/ \E u \in UserIds, c \in CarIds, r \in CarRatings : AddCarReviewCall(u, c, r)

SpecCarReviews == InitReviews /\ [][CarReviewsNext]_vars

\* ------------------------------------------------------------------
\* SpecStayRace and SpecCarRace: review submissions served concurrently on
\* one listing of a@x's approved provider.
\* ------------------------------------------------------------------
\* the one stay body, the listing reviewed and the ratings of these
\* specifications
RaceStays == {i \in PlainStays : i.price_per_night = 100}
RaceListing == 1
RaceRatings == {4, 5}

StayRaceNext ==
    \/ \E t \in Emails, i \in RaceStays : CreateStayRoute(t, i)
    \/ \E t \in Emails, r \in RaceRatings : AddReviewRoute(t, RaceListing, r)
    \/ \E rid \in RequestIds, t \in Emails, r \in RaceRatings :
            BeginAddReview(rid, t, RaceListing, r)
    \/ \E rid \in RequestIds : ReadAggregates(rid)
    \/ \E rid \in RequestIds : WriteAggregates(rid)

SpecStayRace == InitReviews /\ [][StayRaceNext]_vars

CarRaceNext ==
    \/ \E t \in Emails, i \in RaceCars : CreateCarRoute(t, i)
    \/ \E rid \in RequestIds, r \in RaceRatings :
            BeginAddCarReview(rid, 2, RaceListing, r)
    \/ \E rid \in RequestIds : CommitAddCarReview(rid)

SpecCarRace == InitReviews /\ [][CarRaceNext]_vars

\* ------------------------------------------------------------------
\* SpecRoles: accounts and their roles, with restarts of the application.
\* ------------------------------------------------------------------
\* core/db.init_db at a later startup: the default admin is inserted when no
\* user has the admin role; the UNIQUE email refuses the insert when another
\* account holds the admin's email.
init_db ==
    /\ caller' = 0
    /\ IF \E u \in users : u.role = "admin" THEN Fail("init_db", OK)
       ELSE IF \E u \in users : u.email = AdminEmail
            THEN Fail("init_db", ServerError)
       ELSE /\ nextId["user"] <= MaxUsers
            /\ users' = users \cup
                   {[id |-> nextId["user"], email |-> AdminEmail, role |-> "admin"]}
            /\ nextId' = Bump("user")
            /\ Respond("init_db", OK)
            /\ UNCHANGED <<fkEnforced, providers, taxVars, stayVars, carVars>>

RolesNext ==
    \/ \E e \in Emails, r \in UserRole : Register(e, r)
    \/ \E t \in Emails : UpdateMe(t)
    \/ \E t \in Emails : DeleteMe(t)
    \/ \E t \in Emails, u \in UserIds, r \in UserRole : ChangeRole(t, u, r)
    \/ init_db

SpecRoles == Init /\ [][RolesNext]_vars

\* ------------------------------------------------------------------
\* SpecTokens: a@x (user 2, a customer without provider profile) and the
\* admin have logged in; a token is the email it was issued for
\* (login_user: create_access_token(subject=user.email)).
\* ------------------------------------------------------------------
TokenHolder == 2

InitTokens ==
    /\ fkEnforced \in BOOLEAN
    /\ inflight = {}
    /\ NoSearch
    /\ users = {AdminRow, [id |-> TokenHolder, email |-> "a@x", role |-> "customer"]}
    /\ providers = {}
    /\ SeedTaxonomy
    /\ NoListings
    /\ nextId = [t \in Tables |-> CASE t = "user" -> 3
                                    [] t \in {"amenity", "propertytype",
                                              "cartype", "carfeature"} -> 2
                                    [] OTHER -> 1]
    /\ last = [op |-> "login_user", status |-> OK]

TokensNext ==
    \/ \E e \in Emails, r \in {"customer", "provider"} : Register(e, r)
    \/ \E t \in Emails : UpdateMe(t)
    \/ \E t \in Emails : DeleteMe(t)
    \/ \E t \in Emails, u \in UserIds : DeleteUserAsAdmin(t, u)
    \/ \E t \in Emails, u \in UserIds, r \in UserRole : ChangeRole(t, u, r)
    \/ \E t \in Emails : AdminListUsers(t)
    \/ \E t \in Emails : AddReviewRoute(t, RaceListing, 4)

SpecTokens == InitTokens /\ [][TokensNext]_vars

\* ------------------------------------------------------------------
\* SpecCarUpdate: a@x's approved provider creates a car, uploads an image,
\* the car is reviewed, and update requests of every shape are served.
\* ------------------------------------------------------------------
CarUpdateNext ==
    \/ \E i \in CarCreate : CreateCarRoute("a@x", i)
    \/ \E t \in Emails, c \in CarIds, i \in CarUpdate : UpdateCarRoute(t, c, i)
    \/ \E c \in CarIds : UploadCarImageRoute("a@x", c)
    \/ \E c \in CarIds : AddCarReviewCall(2, c, 4)

SpecCarUpdate == InitReviews /\ [][CarUpdateNext]_vars

\* ------------------------------------------------------------------
\* SpecProviderRace: create_provider at the grain of its awaits, for
\* requests served concurrently, from the database init_db leaves behind.
\* ------------------------------------------------------------------
\* create_provider up to the SELECT of an existing profile, which found none
BeginCreateProvider(rid, tok) ==
    /\ ~Suspended(rid)
    /\ TokenKnown(tok)
    /\ get_current_user(tok).role = "provider"
    /\ ~HasProvider(get_current_user(tok))
    /\ inflight' = inflight \cup
            {[id |-> rid, op |-> "create_provider", pc |-> "insert",
              user_id |-> get_current_user(tok).id]}
    /\ UNCHANGED <<fkEnforced, dbVars, searchVars, caller, last>>

\* create_provider from the insert to its commit; Provider.user_id carries an
\* index and a foreign key, no UNIQUE constraint
CommitCreateProvider(rid) ==
    \E r \in inflight :
        /\ r.id = rid /\ r.op = "create_provider" /\ r.pc = "insert"
        /\ nextId["provider"] <= MaxProviders
        /\ IF fkEnforced /\ ~\E u \in users : u.id = r.user_id
           THEN /\ last' = [op |-> "create_provider", status |-> ServerError]
                /\ UNCHANGED <<providers, nextId>>
           ELSE /\ providers' = providers \cup
                        {[id |-> nextId["provider"], user_id |-> r.user_id,
                          status |-> "pending"]}
                /\ nextId' = Bump("provider")
                /\ last' = [op |-> "create_provider", status |-> OK]
        /\ inflight' = inflight \ {r}
        /\ caller' = r.user_id
        /\ UNCHANGED <<fkEnforced, users, taxVars, stayVars, carVars, searchVars>>

ProviderRaceNext ==
    \/ \E e \in Emails \ {AdminEmail} : Register(e, "provider")
    \/ \E t \in Emails : CreateProvider(t)
    \/ \E rid \in RequestIds, t \in Emails : BeginCreateProvider(rid, t)
    \/ \E rid \in RequestIds : CommitCreateProvider(rid)

SpecProviderRace == Init /\ [][ProviderRaceNext]_vars

\* ------------------------------------------------------------------
\* SpecDeletes: listings of both kinds are created and deleted by a@x's
\* approved provider.
\* ------------------------------------------------------------------
DeletesNext ==
    \/ \E t \in Emails, i \in RaceStays : CreateStayRoute(t, i)
    \/ \E t \in Emails, i \in RaceCars : CreateCarRoute(t, i)
    \/ \E t \in Emails, s \in StayIds : DeleteStayRoute(t, s)
    \/ \E t \in Emails, c \in CarIds : DeleteCarRoute(t, c)

SpecDeletes == InitReviews /\ [][DeletesNext]_vars

\* ------------------------------------------------------------------
\* SpecReviewFrame: every request that writes, over the listings of a@x's
\* approved provider and their reviews.  b@x registers as a customer.
\* ------------------------------------------------------------------
ReviewFrameNext ==
    \/ Register("b@x", "customer")
    \/ DeleteMe("b@x")
    \/ \E u \in {2, 3} : DeleteUserAsAdmin(AdminEmail, u)
    \/ ChangeRole(AdminEmail, 3, "provider")
    \/ ReviewProvider(AdminEmail, 1, TRUE)
    \/ \E i \in RaceStays : CreateStayRoute("a@x", i)
    \/ \E i \in RaceStays : UpdateStayRoute("a@x", RaceListing, i)
    \/ DeleteStayRoute("a@x", RaceListing)
    \/ UploadStayImageRoute("a@x", RaceListing)
    \/ AssignAmenitiesRoute("a@x", RaceListing, <<1>>)
    \/ \E t \in {"a@x", "b@x"} : AddReviewRoute(t, RaceListing, 4)
    \/ \E i \in RaceCars : CreateCarRoute("a@x", i)
    \/ DeleteCarRoute("a@x", RaceListing)
    \/ AddCarReviewCall(3, RaceListing, 4)

SpecReviewFrame == InitReviews /\ [][ReviewFrameNext]_vars

\* ------------------------------------------------------------------
\* SpecRatings: reviews of both listing kinds with ratings inside and
\* outside 1..5.
\* ------------------------------------------------------------------
AnyRatings == {0, 5, 6}

RatingsNext ==
    \/ \E t \in Emails, i \in RaceStays : CreateStayRoute(t, i)
    \/ \E t \in Emails, r \in AnyRatings : AddReviewRoute(t, RaceListing, r)
    \/ \E t \in Emails, i \in RaceCars : CreateCarRoute(t, i)
    \/ \E t \in Emails, r \in AnyRatings : AddCarReviewRoute(t, RaceListing, r)
    \/ \E r \in AnyRatings : AddCarReviewCall(2, RaceListing, r)

SpecRatings == InitReviews /\ [][RatingsNext]_vars

\* ------------------------------------------------------------------
\* SpecUnique: registrations and taxonomy entries with repeated emails and
\* names, from the database init_db leaves behind.
\* ------------------------------------------------------------------
UniqueNext ==
    \/ \E e \in Emails, r \in UserRole : Register(e, r)
    \/ \E t \in Emails, n \in TaxNames : CreateAmenity(t, n)
    \/ \E t \in Emails, n \in TaxNames : CreatePropertyType(t, n)
    \/ \E t \in Emails, n \in TaxNames : CreateCarType(t, n)
    \/ \E t \in Emails, n \in TaxNames : CreateCarFeature(t, n)

SpecUnique == Init /\ [][UniqueNext]_vars

\* ------------------------------------------------------------------
\* SpecSearch: one search over a table of listings.  The rows are drawn from
\* bounded sets: a@x's approved provider owns them, a stay has no review or
\* the two (ratings 4 and 5) its summary shows, is_featured, which no request of the
\* application writes on a stay, is as set in the database, and stay 1 may
\* be linked to the amenity.
\* ------------------------------------------------------------------
ReviewSummaries == {[avg |-> Zero, count |-> 0], [avg |-> Rat(9, 2), count |-> 2]}
StayContents == [price : Prices, featured : BOOLEAN, reviews : ReviewSummaries]
StayOf(i, c) ==
    [id |-> i, provider_id |-> 1, property_type_id |-> 1,
     price_per_night |-> c.price, service_fee |-> 15, tax_percent |-> RatOf(10),
     is_featured |-> c.featured,
     rating_avg |-> c.reviews.avg, review_count |-> c.reviews.count]
StayTables ==
    UNION {{{StayOf(i, f[i]) : i \in ids} : f \in [ids -> StayContents]}
            : ids \in SUBSET StayIds}
CarOf(i, price) ==
    [id |-> i, provider_id |-> 1, car_type_id |-> 1, price_per_day |-> price,
     is_featured |-> FALSE, rating_avg |-> Zero, review_count |-> 0]
CarTables ==
    UNION {{{CarOf(i, f[i]) : i \in ids} : f \in [ids -> Prices]}
            : ids \in SUBSET CarIds}

InitSearch ==
    /\ fkEnforced \in BOOLEAN
    /\ inflight = {}
    /\ users = {AdminRow, [id |-> 2, email |-> "a@x", role |-> "customer"]}
    /\ providers = {[id |-> 1, user_id |-> 2, status |-> "approved"]}
    /\ SeedTaxonomy
    /\ stayImages = {} /\ carFeatureLink = {}
    /\ carImages = {} /\ carReviews = {}
    /\ \/ /\ stays \in StayTables
          /\ stayAmenity \in SUBSET {[stay_id |-> s.id, amenity_id |-> 1]
                                        : s \in {t \in stays : t.id = 1}}
          /\ cars = {}
          /\ query \in StayQueries \cup RouteQueries
       \/ /\ stays = {} /\ stayAmenity = {}
          /\ cars \in CarTables
          /\ query \in CarQueries
    /\ reviews = {[id |-> 2 * (s.id - 1) + k, stay_id |-> s.id, user_id |-> 2,
                   rating |-> 3 + k]
                    : s \in {t \in stays : t.review_count = 2}, k \in 1..2}
    /\ found = NoResult /\ caller = 0
    /\ nextId = [t \in Tables |-> CASE t \in {"user"} -> 3
                                    [] t \in {"provider", "amenity", "propertytype",
                                              "cartype", "carfeature"} -> 2
                                    [] t = "stay" -> MaxStays + 1
                                    [] t = "review" -> 2 * MaxStays + 1
                                    [] t = "car" -> MaxCars + 1
                                    [] OTHER -> 1]
    /\ last = [op |-> "create_stay", status |-> OK]

SearchNext == SearchStays \/ SearchStaysRoute \/ ListCars

SpecSearch == InitSearch /\ [][SearchNext]_vars

\* ------------------------------------------------------------------
\* SpecPaging: one page of a search over the same tables, for every page
\* number from below the first page to beyond the last.
\* ------------------------------------------------------------------
InitPaging ==
    /\ fkEnforced \in BOOLEAN
    /\ inflight = {}
    /\ users = {AdminRow, [id |-> 2, email |-> "a@x", role |-> "customer"]}
    /\ providers = {[id |-> 1, user_id |-> 2, status |-> "approved"]}
    /\ SeedTaxonomy
    /\ stays \in StayTables
    /\ stayAmenity = {} /\ stayImages = {}
    /\ reviews = {[id |-> 2 * (s.id - 1) + k, stay_id |-> s.id, user_id |-> 2,
                   rating |-> 3 + k]
                    : s \in {t \in stays : t.review_count = 2}, k \in 1..2}
    /\ cars = {} /\ carFeatureLink = {} /\ carImages = {} /\ carReviews = {}
    /\ query \in PageQueries
    /\ found = NoResult /\ caller = 0
    /\ nextId = [t \in Tables |-> CASE t \in {"user"} -> 3
                                    [] t \in {"provider", "amenity", "propertytype",
                                              "cartype", "carfeature"} -> 2
                                    [] t = "stay" -> MaxStays + 1
                                    [] t = "review" -> 2 * MaxStays + 1
                                    [] OTHER -> 1]
    /\ last = [op |-> "create_stay", status |-> OK]

PagingNext == SearchStays

SpecPaging == InitPaging /\ [][PagingNext]_vars

\* ------------------------------------------------------------------
\* SpecDetail: one GET /stays/{stay_id} over a table of priced stays.
\* ------------------------------------------------------------------
PricedContents == [price : {99, 100}, fee : {0, 15},
                   tax : {RatOf(10), Rat(15, 2)}]
PricedStayOf(i, c) ==
    [id |-> i, provider_id |-> 1, property_type_id |-> 1,
     price_per_night |-> c.price, service_fee |-> c.fee, tax_percent |-> c.tax,
     is_featured |-> FALSE, rating_avg |-> Zero, review_count |-> 0]
PricedTables ==
    UNION {{{PricedStayOf(i, f[i]) : i \in ids} : f \in [ids -> PricedContents]}
            : ids \in SUBSET StayIds}

InitDetail ==
    /\ fkEnforced \in BOOLEAN
    /\ inflight = {}
    /\ users = {AdminRow, [id |-> 2, email |-> "a@x", role |-> "customer"]}
    /\ providers = {[id |-> 1, user_id |-> 2, status |-> "approved"]}
    /\ SeedTaxonomy
    /\ stays \in PricedTables
    /\ stayAmenity = {} /\ stayImages = {} /\ reviews = {}
    /\ cars = {} /\ carFeatureLink = {} /\ carImages = {} /\ carReviews = {}
    /\ query \in DetailQueries
    /\ found = NoResult /\ caller = 0
    /\ nextId = [t \in Tables |-> CASE t \in {"user"} -> 3
                                    [] t \in {"provider", "amenity", "propertytype",
                                              "cartype", "carfeature"} -> 2
                                    [] t = "stay" -> MaxStays + 1
                                    [] OTHER -> 1]
    /\ last = [op |-> "create_stay", status |-> OK]

DetailNext == GetStayDetail

SpecDetail == InitDetail /\ [][DetailNext]_vars

\* ------------------------------------------------------------------
\* SpecSimplePrice: the approved provider of a@x creates priced stays and
\* one search, with or without dates, lists them.
\* ------------------------------------------------------------------
PricedStayCreate ==
    [price_per_night : {99, 100}, service_fee : {0, 15},
     tax_percent : {RatOf(10), Rat(15, 2)}, property_type_id : TaxIds,
     amenity_ids : {<<>>}]

InitSimplePrice ==
    /\ fkEnforced \in BOOLEAN
    /\ inflight = {}
    /\ users = {AdminRow, [id |-> 2, email |-> "a@x", role |-> "customer"]}
    /\ providers = {[id |-> 1, user_id |-> 2, status |-> "approved"]}
    /\ SeedTaxonomy
    /\ NoListings
    /\ query \in DatedQueries
    /\ found = NoResult /\ caller = 0
    /\ nextId = [t \in Tables |-> CASE t \in {"user"} -> 3
                                    [] t \in {"provider", "amenity", "propertytype",
                                              "cartype", "carfeature"} -> 2
                                    [] OTHER -> 1]
    /\ last = [op |-> "change_user_role", status |-> OK]

SimplePriceNext ==
    \/ \E t \in Emails, i \in PricedStayCreate : CreateStayRoute(t, i)
    \/ SearchStays

SpecSimplePrice == InitSimplePrice /\ [][SimplePriceNext]_vars

\* ------------------------------------------------------------------
\* Properties
\* ------------------------------------------------------------------

\* C1: in every reachable state every stay and every car has review_count
\* equal to the number of review rows that reference it.
C1_ReviewCountMatchesRows ==
    /\ \A s \in stays :
            s.review_count = Cardinality({r \in reviews : r.stay_id = s.id})
    /\ \A c \in cars :
            c.review_count = Cardinality({r \in carReviews : r.car_id = c.id})

\* C2: in every reachable state every stay and every car has rating_avg equal
\* to the exact mean of the ratings of the review rows that reference it, and
\* 0 when there is none.
C2_RatingAvgIsExactMean ==
    /\ \A s \in stays :
            LET rs == {r \in reviews : r.stay_id = s.id}
            IN  s.rating_avg = IF rs = {} THEN Zero
                               ELSE Rat(SumRatings(rs), Cardinality(rs))
    /\ \A c \in cars :
            LET rs == {r \in carReviews : r.car_id = c.id}
            IN  c.rating_avg = IF rs = {} THEN Zero
                               ELSE Rat(SumRatings(rs), Cardinality(rs))

\* C3: a create-listing request (stay or car) served for a caller whose
\* provider profile is pending or rejected is answered Forbidden and writes
\* no listing and no child row.
C3_UnapprovedCreateIsForbidden ==
    [][(/\ last'.op \in {"create_stay", "create_car"}
        /\ \E p \in providers : p.user_id = caller' /\ p.status # "approved")
       => (last'.status = Forbidden /\ UNCHANGED <<stayVars, carVars>>)]_vars

\* C4: the create-stay request of a caller whose provider profile is pending is
\* answered Forbidden, and once the profile is approved the same caller's
\* request, with a property type and amenities that exist, succeeds and
\* persists the stay.
C4_ApprovalUnlocksCreate ==
    [][\A t \in Emails :
        LET mine == {p \in providers : TokenKnown(t) /\ p.user_id = Caller(t)}
            plain == [price_per_night |-> 100, property_type_id |-> 1,
                      service_fee |-> 15, tax_percent |-> RatOf(10),
                      amenity_ids |-> <<>>]
        IN  /\ (\E p \in mine : p.status = "pending") /\ CreateStayRoute(t, plain)
                => last'.status = Forbidden /\ stays' = stays
            /\ (\E p \in mine : p.status = "approved") /\ CreateStayRoute(t, plain)
                => last'.status = OK /\ stays' # stays]_vars

\* C5: a provider is created pending, and its status only ever changes from
\* pending to approved or from pending to rejected.
C5_StatusOnlyLeavesPending ==
    [][\A p \in providers' :
        IF \E q \in providers : q.id = p.id
        THEN LET q == CHOOSE q \in providers : q.id = p.id
             IN  \/ q.status = p.status
                 \/ q.status = "pending" /\ p.status \in {"approved", "rejected"}
        ELSE p.status = "pending"]_vars

\* C6: an administration or taxonomy request served for a caller whose stored
\* role is not admin is answered Forbidden and changes no table.
C6_NonAdminIsRefused ==
    [][(/\ last'.op \in {"list_users", "list_providers", "change_user_role",
                         "deactivate_user", "review_provider",
                         "create_amenity", "delete_amenity",
                         "create_property_type", "delete_property_type",
                         "create_car_type", "delete_car_type",
                         "create_car_feature", "delete_car_feature"}
        /\ \E u \in users : u.id = caller' /\ u.role # "admin")
       => (last'.status = Forbidden /\ UNCHANGED <<fkEnforced, dbVars>>)]_vars

\* a customer's request to change a role was refused, after the admin had
\* created an amenity
C6_Witness ==
    /\ last = [op |-> "change_user_role", status |-> Forbidden]
    /\ \E u \in users : u.id = caller /\ u.role = "customer"
    /\ amenities # {}

\* C7: update, delete, image upload and amenity assignment on a stay succeed
\* for the owning provider's account when it holds the provider role, and the
\* same requests by the account of another provider are answered Forbidden
\* and leave the stay and its children unchanged.
C7_OwnerOnlyManagement ==
    [][\A t \in Emails, s \in stays :
        LET mine == {p \in providers : TokenKnown(t) /\ p.user_id = Caller(t)}
            plain == [price_per_night |-> 200, property_type_id |-> 1,
                      service_fee |-> 15, tax_percent |-> RatOf(10),
                      amenity_ids |-> <<>>]
            managed == \/ UpdateStayRoute(t, s.id, plain)
                       \/ DeleteStayRoute(t, s.id)
                       \/ UploadStayImageRoute(t, s.id)
                       \/ AssignAmenitiesRoute(t, s.id, <<1>>)
        IN  /\ mine # {} /\ (\A p \in mine : p.id # s.provider_id) /\ managed
                => last'.status = Forbidden /\ UNCHANGED stayVars
            /\ (\E p \in mine : p.id = s.provider_id)
               /\ get_current_user(t).role = "provider"
               /\ DeleteStayRoute(t, s.id)
                => last'.status = OK /\ s \notin stays']_vars

\* C8: a search returns exactly the listings that satisfy every supplied
\* filter (amenity ids and property type id included, for stays), before
\* pagination, and nothing else.
C8_SearchAppliesEveryFilter ==
    /\ last.op = "search_stays" =>
            LET q == found.query
                wanted == {s \in stays :
                    /\ q.price_min # Unset => s.price_per_night >= q.price_min[1]
                    /\ q.price_max # Unset => s.price_per_night <= q.price_max[1]
                    /\ q.min_rating # Unset =>
                            ~RatLess(s.rating_avg, Rat(q.min_rating[1], 1))
                    /\ q.amenities # Unset =>
                            \A a \in Range(q.amenities[1]) :
                                [stay_id |-> s.id, amenity_id |-> a] \in stayAmenity}
            IN  /\ Range(found.items) \subseteq wanted
                /\ Range(found.scan) = wanted
    /\ last.op = "GET /stays" =>
            /\ last.status = OK
            /\ \A s \in Range(found.items) :
                    found.query.property_type_id # Unset =>
                        s.property_type_id = found.query.property_type_id[1]
    /\ last.op = "list_cars" =>
            LET q == found.query
            IN  Range(found.items) = {c \in cars :
                    /\ q.min_price # Unset => c.price_per_day >= q.min_price[1]
                    /\ q.max_price # Unset => c.price_per_day <= q.max_price[1]
                    /\ q.car_type_id # Unset => c.car_type_id = q.car_type_id[1]}

\* C9: what search_stays returns is ordered by its sort key: price_asc by
\* non-decreasing price, price_desc by non-increasing price, rating_desc by
\* non-increasing rating_avg, popularity by non-increasing review_count, and
\* featured returns only rows with is_featured set.
C9_ResultFollowsSortKey ==
    last.op = "search_stays" =>
        LET key == found.query.sort_by
            r == found.items
        IN  /\ \A i, j \in 1..Len(r) : i < j =>
                /\ key = "price_asc" => r[i].price_per_night <= r[j].price_per_night
                /\ key = "price_desc" => r[i].price_per_night >= r[j].price_per_night
                /\ key = "rating_desc" => ~RatLess(r[i].rating_avg, r[j].rating_avg)
                /\ key = "popularity" => r[i].review_count >= r[j].review_count
            /\ key = "featured" => \A i \in 1..Len(r) : r[i].is_featured

\* a price_desc search returned two stays of different price that the store
\* had delivered in the other order
C9_Witness ==
    /\ last.op = "search_stays"
    /\ found.query.sort_by = "price_desc"
    /\ Len(found.items) = 2
    /\ found.items[1].price_per_night > found.items[2].price_per_night
    /\ found.scan # found.items

\* C10: with a sort_by that is none of the five keys, search_stays returns
\* what it returns for price_asc on the same rows, filters and page.
C10_UnknownSortKeyIsPriceAsc ==
    (last.op = "search_stays" /\ found.query.sort_by \notin SortKeys) =>
        found.items = Paginate(StableSort(found.scan, "price_asc"),
                               found.query.page, found.query.page_size)

\* C11: for every page number <= 0 and every page number beyond the last
\* page, with any positive page_size and any number of matching rows,
\* search_stays answers without failing and returns the empty list.
C11_PagesOutsideAreEmpty ==
    (/\ last.op = "search_stays"
     /\ found.query.page_size > 0
     /\ \/ found.query.page <= 0
        \/ (found.query.page - 1) * found.query.page_size >= Len(found.scan))
        => (last.status = OK /\ found.items = <<>>)

\* C12: for page >= 1 and page_size >= 1, page p of search_stays is the rows
\* at positions [(p-1)*page_size, p*page_size) of the filtered, sorted
\* result; the pages are disjoint and every matching row is on exactly one
\* of them; 45 rows with page_size 20 give pages of 20, 20, 5 and 0 rows.
C12_PageIsItsWindow ==
    /\ (last.op = "search_stays" /\ found.query.page >= 1
            /\ found.query.page_size >= 1) =>
            LET sorted == SortStays(found.scan, found.query.sort_by)
                n == Len(sorted)
                p == found.query.page
                size == found.query.page_size
                first == (p - 1) * size + 1
                lastPos == IF p * size < n THEN p * size ELSE n
            IN  /\ found.items = [k \in 1..(IF lastPos < first THEN 0
                                              ELSE lastPos - first + 1)
                                    |-> sorted[first + k - 1]]
                /\ \A i \in 1..n :
                        Cardinality({pp \in 1..(n + 1) :
                            sorted[i] \in Range(Paginate(sorted, pp, size))}) = 1
    /\ LET rows == [i \in 1..45 |-> i]
       IN  /\ Paginate(rows, 1, 20) = [i \in 1..20 |-> i]
           /\ Paginate(rows, 2, 20) = [i \in 1..20 |-> 20 + i]
           /\ Paginate(rows, 3, 20) = [i \in 1..5 |-> 40 + i]
           /\ Paginate(rows, 4, 20) = <<>>

\* the second page of size 1 of a two-row result is its second row
C12_Witness ==
    /\ last.op = "search_stays"
    /\ found.query.page = 2 /\ found.query.page_size = 1
    /\ Len(found.scan) = 2
    /\ found.items = <<SortStays(found.scan, found.query.sort_by)[2]>>
    /\ found.items # <<found.scan[2]>>

\* C13 (as stated): for nights = check_out - check_in > 0 the breakdown of
\* calculate_price_breakdown is subtotal = price_per_night * nights * rooms,
\* service_fee = the stay's service_fee, taxes = subtotal * tax_percent / 100
\* and total = subtotal + service_fee + taxes.
C13_BreakdownIsTheFormula ==
    (/\ last = [op |-> "get_stay_detail", status |-> OK]
     /\ found.results[1].price_breakdown # Unset) =>
        LET q == found.query
            stay == StayRow(q.stay_id)
            b == found.results[1].price_breakdown[1]
            nights == q.check_out[1] - q.check_in[1]
            subtotal == RatOf(stay.price_per_night * nights * q.rooms)
            taxes == RatDiv(RatMul(subtotal, stay.tax_percent), 100)
        IN  /\ nights > 0
            /\ b.subtotal = subtotal
            /\ b.service_fee = RatOf(stay.service_fee)
            /\ b.taxes = taxes
            /\ b.total = RatAdd(RatAdd(subtotal, RatOf(stay.service_fee)), taxes)

\* C13 (amended): each of the four values returned is a whole number of
\* hundredths within half a hundredth of the value of its formula, the
\* total being formed from the unrounded values; price 100, tax 10%, fee 15,
\* 3 nights and 2 rooms give subtotal 600, service_fee 15, taxes 60, total 675.
C13_BreakdownIsTheFormulaRounded ==
    (/\ last = [op |-> "get_stay_detail", status |-> OK]
     /\ found.results[1].price_breakdown # Unset) =>
        LET q == found.query
            stay == StayRow(q.stay_id)
            b == found.results[1].price_breakdown[1]
            nights == q.check_out[1] - q.check_in[1]
            subtotal == RatOf(stay.price_per_night * nights * q.rooms)
            taxes == RatDiv(RatMul(subtotal, stay.tax_percent), 100)
            total == RatAdd(RatAdd(subtotal, RatOf(stay.service_fee)), taxes)
            Cents(v) == 100 % v.den = 0
            Near(v, e) ==
                LET d == v.num * e.den - e.num * v.den
                IN  200 * (IF d < 0 THEN -d ELSE d) <= v.den * e.den
        IN  /\ nights > 0
            /\ Cents(b.subtotal) /\ Near(b.subtotal, subtotal)
            /\ Cents(b.service_fee) /\ Near(b.service_fee, RatOf(stay.service_fee))
            /\ Cents(b.taxes) /\ Near(b.taxes, taxes)
            /\ Cents(b.total) /\ Near(b.total, total)
            /\ (/\ stay.price_per_night = 100 /\ stay.tax_percent = RatOf(10)
                /\ stay.service_fee = 15 /\ nights = 3 /\ q.rooms = 2) =>
                    b = [subtotal |-> RatOf(600), service_fee |-> RatOf(15),
                         taxes |-> RatOf(60), total |-> RatOf(675)]

\* the example: 3 nights, 2 rooms of a stay of price 100, tax 10%, fee 15
C13_Witness ==
    /\ last = [op |-> "get_stay_detail", status |-> OK]
    /\ found.query.rooms = 2
    /\ found.query.check_in = Sent(1) /\ found.query.check_out = Sent(4)
    /\ StayRow(found.query.stay_id).tax_percent = RatOf(10)
    /\ found.results[1].price_breakdown =
            Sent([subtotal |-> RatOf(600), service_fee |-> RatOf(15),
                  taxes |-> RatOf(60), total |-> RatOf(675)])

\* C14: with check_out <= check_in the duration-based breakdown fails with
\* InvalidInput and no breakdown is returned; and whatever the dates and the
\* rooms value, a breakdown that is returned has no negative subtotal, taxes
\* or total.
C14_NoNegativeBreakdown ==
    last.op = "get_stay_detail" =>
        LET q == found.query
        IN  /\ (/\ StayExists(q.stay_id)
                /\ q.check_in # Unset /\ q.check_out # Unset
                /\ q.check_out[1] <= q.check_in[1]) =>
                    (last.status = BadRequest /\ found.results = <<>>)
            /\ (last.status = OK /\ found.results[1].price_breakdown # Unset) =>
                    LET b == found.results[1].price_breakdown[1]
                    IN  b.subtotal.num >= 0 /\ b.taxes.num >= 0 /\ b.total.num >= 0

\* C16: get_single_stay_detail fails with NotFound when no stay has the id;
\* for a stay that exists, what it returns carries a breakdown exactly when
\* both check_in and check_out were supplied and a null one otherwise; no
\* table is changed.
C16_DetailBreakdownIffBothDates ==
    [][(query.kind = "get_stay_detail" /\ last'.op = "get_stay_detail") =>
        /\ UNCHANGED <<fkEnforced, dbVars>>
        /\ last'.status = NotFound <=> ~StayExists(query.stay_id)
        /\ last'.status = NotFound => found'.results = <<>>
        /\ last'.status = OK =>
            /\ Len(found'.results) = 1
            /\ found'.results[1].id = query.stay_id
            /\ found'.results[1].price_breakdown # Unset
                    <=> (query.check_in # Unset /\ query.check_out # Unset)]_vars

\* a detail request with check_in but no check_out returned the stay with a
\* null breakdown
C16_Witness ==
    /\ last = [op |-> "get_stay_detail", status |-> OK]
    /\ found.query.check_in # Unset /\ found.query.check_out = Unset
    /\ found.results[1].price_breakdown = Unset

\* C15: every listing search_stays returns, and the listing create_stay
\* returns, carries the breakdown of its stored fields: subtotal =
\* price_per_night, taxes = subtotal * tax_percent / 100, service_fee as
\* stored, total = subtotal + service_fee + taxes, whatever check_in and
\* check_out the search was given.
C15_SimpleBreakdownOfStoredFields ==
    LET Expected(row) ==
            [subtotal |-> Rat(row.price_per_night, 1),
             service_fee |-> Rat(row.service_fee, 1),
             taxes |-> Rat(row.price_per_night * row.tax_percent.num,
                           100 * row.tax_percent.den),
             total |-> Rat((row.price_per_night + row.service_fee) * 100
                                * row.tax_percent.den
                            + row.price_per_night * row.tax_percent.num,
                           100 * row.tax_percent.den)]
    IN  /\ last.op = "search_stays" =>
            /\ Len(found.results) = Len(found.items)
            /\ \A i \in 1..Len(found.results) :
                /\ found.items[i] \in stays
                /\ found.results[i].id = found.items[i].id
                /\ found.results[i].price_breakdown = Sent(Expected(found.items[i]))
        /\ last = [op |-> "create_stay", status |-> OK] =>
            /\ Len(found.results) = 1
            /\ found.results[1].id = nextId["stay"] - 1
            /\ found.results[1].price_breakdown =
                    Sent(Expected(StayRow(found.results[1].id)))

\* a search with both dates returned a stay of price 99, fee 15 and tax 7.5%
\* with taxes 7.425 and total 121.425
C15_Witness ==
    /\ last.op = "search_stays"
    /\ found.query.check_in = Sent(1) /\ found.query.check_out = Sent(3)
    /\ Len(found.results) >= 1
    /\ found.results[1].price_per_night = 99
    /\ found.results[1].price_breakdown =
            Sent([subtotal |-> Rat(99, 1), service_fee |-> Rat(15, 1),
                  taxes |-> Rat(7425, 1000), total |-> Rat(121425, 1000)])

\* C17: with add_car_review calls that run one after another, a car that
\* started with rating_avg 0 and review_count 0 has, after its n reviews with
\* ratings r1..rn, review_count = n and rating_avg = (r1 + ... + rn) / n;
\* ratings 4, 5, 3 in that order give count 3 and average 4.
C17_RunningMeanIsTheMean ==
    \A c \in cars :
        LET rs == {r \in carReviews : r.car_id = c.id}
            n == Cardinality(rs)
        IN  /\ c.review_count = n
            /\ n = 0 => c.rating_avg = Zero
            /\ n > 0 => c.rating_avg.num * n = SumRatings(rs) * c.rating_avg.den
            /\ {<<r.id, r.rating>> : r \in rs} = {<<1, 4>>, <<2, 5>>, <<3, 3>>}
                    => (c.review_count = 3 /\ c.rating_avg = RatOf(4))

\* the reviews 4, 5, 3 were added in that order to one car
C17_Witness ==
    \E c \in cars :
        /\ {<<r.id, r.rating>> : r \in {x \in carReviews : x.car_id = c.id}}
                = {<<1, 4>>, <<2, 5>>, <<3, 3>>}
        /\ c.review_count = 3 /\ c.rating_avg = RatOf(4)
        /\ last = [op |-> "add_car_review", status |-> OK]

\* C18: when add_review on an existing stay completes without interleaving,
\* the stay's review_count is the number of its reviews, the new one
\* included, and its rating_avg is the exact average of their ratings,
\* whatever was stored before.
C18_AddReviewRecomputesExactly ==
    [][\A t \in Emails, sid \in StayIds, rating \in StayRatings :
        (StayExists(sid) /\ AddReviewRoute(t, sid, rating) /\ last'.status = OK) =>
            LET stay == CHOOSE s \in stays' : s.id = sid
                rs == {x \in reviews' : x.stay_id = sid}
            IN  /\ stay.review_count = Cardinality(rs)
                /\ stay.rating_avg.num * Cardinality(rs)
                        = SumRatings(rs) * stay.rating_avg.den]_vars

\* C19: when a second add_car_review reads the car before the first has
\* committed, both reviews are persisted but the later commit leaves
\* review_count one above what it read, below the number of the car's
\* reviews, and a rating_avg made of what it read and its own rating only.
C19_InterleavedCarReviewsLoseAnUpdate ==
    [][\A r \in inflight :
        (/\ CommitAddCarReview(r.id)
         /\ CarRow(r.car_id).review_count > r.car.review_count) =>
            LET car == CHOOSE c \in cars' : c.id = r.car_id
                rs == {x \in carReviews' : x.car_id = r.car_id}
            IN  /\ carReviews \subseteq carReviews'
                /\ Cardinality(rs) = Cardinality(rs \cap carReviews) + 1
                /\ car.review_count = r.car.review_count + 1
                /\ car.review_count < Cardinality(rs)
                /\ car.rating_avg.num * r.car.rating_avg.den * car.review_count =
                        (r.car.rating_avg.num * r.car.review_count
                            + r.rating * r.car.rating_avg.den)
                        * car.rating_avg.den]_vars

\* two reviews (4 and 5) of car 1 are persisted, no request is in flight,
\* and the car shows one review with the rating of one of them
C19_Witness ==
    /\ inflight = {}
    /\ last = [op |-> "add_car_review", status |-> OK]
    /\ {r.rating : r \in {x \in carReviews : x.car_id = 1}} = {4, 5}
    /\ \E c \in cars :
        /\ c.id = 1
        /\ c.review_count = 1
        /\ c.rating_avg \in {RatOf(4), RatOf(5)}

\* C20: whatever concurrent add_review requests did before, an add_review on
\* an existing stay that runs with no other submission in flight leaves
\* review_count equal to the number of the stay's reviews and rating_avg
\* derived from all of them (their mean, to the tenth).
C20_NextWriteCorrectsTheAggregates ==
    [][\A t \in Emails, sid \in StayIds, rating \in StayRatings :
        (/\ inflight = {} /\ StayExists(sid)
         /\ AddReviewRoute(t, sid, rating) /\ last'.status = OK) =>
            LET stay == CHOOSE s \in stays' : s.id = sid
                rs == {x \in reviews' : x.stay_id = sid}
                n == Cardinality(rs)
                d == stay.rating_avg.num * n - SumRatings(rs) * stay.rating_avg.den
            IN  /\ stay.review_count = n
                /\ 20 * (IF d < 0 THEN -d ELSE d) <= n * stay.rating_avg.den]_vars

\* interleaved submissions have left a stay with two reviews and
\* review_count 1, no request is in flight and a further review can be added
C20_Witness ==
    /\ inflight = {}
    /\ last = [op |-> "add_review", status |-> OK]
    /\ nextId["review"] <= MaxReviews
    /\ \E s \in stays :
        /\ s.review_count = 1
        /\ Cardinality({x \in reviews : x.stay_id = s.id}) = 2

\* C21: a create_stay, create_car or update_car request that fails commits
\* nothing: no listing row, no changed listing field and no link row.
C21_FailedWriteCommitsNothing ==
    [][(/\ last'.op \in {"create_stay", "create_car", "update_car"}
        /\ last'.status # OK)
       => UNCHANGED <<fkEnforced, dbVars>>]_vars

\* C22: a delete_stay / delete_car that reaches the service with a listing id
\* no row has is answered NotFound and changes no table; a successful delete
\* removes the row, and no id is handed out twice, so every later delete of
\* the same listing is answered NotFound as well.
C22_DeleteOfMissingListingIsNotFound ==
    [][/\ \A t \in Emails, sid \in StayIds :
            /\ (ProviderGate(t) = OK /\ ~StayExists(sid) /\ DeleteStayRoute(t, sid))
                => (last'.status = NotFound /\ UNCHANGED <<fkEnforced, dbVars>>)
            /\ (DeleteStayRoute(t, sid) /\ last'.status = OK)
                => (StayExists(sid) /\ ~\E s \in stays' : s.id = sid)
       /\ \A t \in Emails, cid \in CarIds :
            /\ (ProviderGate(t) = OK /\ ~CarExists(cid) /\ DeleteCarRoute(t, cid))
                => (last'.status = NotFound /\ UNCHANGED <<fkEnforced, dbVars>>)
            /\ (DeleteCarRoute(t, cid) /\ last'.status = OK)
                => (CarExists(cid) /\ ~\E c \in cars' : c.id = cid)
       /\ \A s \in stays' : \/ StayExists(s.id)
                           \/ (s.id = nextId["stay"] /\ nextId'["stay"] > s.id)
       /\ \A c \in cars' : \/ CarExists(c.id)
                          \/ (c.id = nextId["car"] /\ nextId'["car"] > c.id)
       /\ \A tb \in Tables : nextId'[tb] >= nextId[tb]]_vars

\* every stay id was handed out, every stay was deleted again, and the last
\* request, a delete_stay by an account with a provider profile, was answered
\* NotFound
C22_Witness ==
    /\ last = [op |-> "delete_stay", status |-> NotFound]
    /\ stays = {} /\ nextId["stay"] = MaxStays + 1
    /\ \E u \in users : u.id = caller /\ u.role = "customer" /\ HasProvider(u)

\* C23: a review row is never modified; it leaves its table only in a step
\* that deletes its listing, and that step removes every review and image of
\* the listing; hence every review references a listing that exists.
C23_ReviewsAreImmutable ==
    /\ [][/\ \A r \in reviews :
                \/ r \in reviews'
                \/ /\ ~\E x \in reviews' : x.id = r.id
                   /\ last'.op = "delete_stay"
                   /\ StayExists(r.stay_id)
                   /\ ~\E s \in stays' : s.id = r.stay_id
          /\ \A r \in carReviews :
                \/ r \in carReviews'
                \/ /\ ~\E x \in carReviews' : x.id = r.id
                   /\ last'.op = "delete_car"
                   /\ CarExists(r.car_id)
                   /\ ~\E c \in cars' : c.id = r.car_id
          /\ \A s \in stays : (~\E x \in stays' : x.id = s.id) =>
                /\ ~\E r \in reviews' : r.stay_id = s.id
                /\ ~\E i \in stayImages' : i.stay_id = s.id
          /\ \A c \in cars : (~\E x \in cars' : x.id = c.id) =>
                /\ ~\E r \in carReviews' : r.car_id = c.id
                /\ ~\E i \in carImages' : i.car_id = c.id]_vars
    /\ [](\A r \in reviews : StayExists(r.stay_id))
    /\ [](\A r \in carReviews : CarExists(r.car_id))

\* C24: every review row of either kind has a rating in 1..5, and an
\* add-review request that passes the role check with a rating outside 1..5
\* is refused as invalid input and changes no table.
C24_RatingsAreInRange ==
    /\ [](\A r \in reviews \cup carReviews : r.rating \in 1..5)
    /\ [][\A t \in Emails, rating \in AnyRatings \ (1..5) :
            /\ (/\ require_role(t, "customer") = OK
                /\ AddReviewRoute(t, RaceListing, rating))
                => (/\ last'.status \in {BadRequest, Unprocessable}
                    /\ UNCHANGED <<fkEnforced, dbVars>>)
            /\ (\/ AddCarReviewCall(Caller(t), RaceListing, rating)
                \/ (/\ require_role(t, "user") = OK
                    /\ AddCarReviewRoute(t, RaceListing, rating)))
                => (/\ last'.status \in {BadRequest, Unprocessable}
                    /\ UNCHANGED <<fkEnforced, dbVars>>)]_vars

\* C25: a registration with a registered email, and the creation of an
\* amenity, property type, car type or car feature under a name in use, is
\* answered with the handler's conflict response and writes nothing; no two
\* users share an email and no two entries of one taxonomy share a name.
C25_DuplicatesAreConflicts ==
    /\ [](/\ \A u, v \in users : u.email = v.email => u = v
          /\ \A tab \in {amenities, propertyTypes, carTypes, carFeatures} :
                \A a, b \in tab : a.name = b.name => a = b)
    /\ [][/\ \A e \in Emails, r \in UserRole \ {"admin"} :
                ((\E u \in users : u.email = e) /\ Register(e, r))
                    => (last'.status = BadRequest /\ UNCHANGED <<fkEnforced, dbVars>>)
          /\ \A t \in Emails, n \in TaxNames :
                require_role(t, "admin") = OK =>
                    /\ ((\E a \in amenities : a.name = n) /\ CreateAmenity(t, n))
                        => (last'.status = BadRequest
                            /\ UNCHANGED <<fkEnforced, dbVars>>)
                    /\ ((\E a \in propertyTypes : a.name = n)
                        /\ CreatePropertyType(t, n))
                        => (last'.status = BadRequest
                            /\ UNCHANGED <<fkEnforced, dbVars>>)
                    /\ ((\E a \in carTypes : a.name = n) /\ CreateCarType(t, n))
                        => (last'.status = BadRequest
                            /\ UNCHANGED <<fkEnforced, dbVars>>)
                    /\ ((\E a \in carFeatures : a.name = n)
                        /\ CreateCarFeature(t, n))
                        => (last'.status = BadRequest
                            /\ UNCHANGED <<fkEnforced, dbVars>>)]_vars

\* C26: at most one provider row exists per user in every reachable state,
\* and a create_provider request of a user who has a profile fails and
\* creates nothing.
C26_OneProviderPerUser ==
    /\ [](\A p, q \in providers : p.user_id = q.user_id => p = q)
    /\ [][\A t \in Emails :
            (/\ TokenKnown(t) /\ HasProvider(get_current_user(t))
             /\ CreateProvider(t))
            => (last'.status # OK /\ UNCHANGED <<fkEnforced, dbVars>>)]_vars

\* C27: an add-review request (stay or car) that passes the role check and
\* names a listing id no row has is answered NotFound and writes nothing, and
\* every committed review row references a listing that exists.
C27_ReviewOfMissingListingIsNotFound ==
    /\ [][/\ \A t \in Emails, sid \in StayIds :
                (/\ require_role(t, "customer") = OK /\ ~StayExists(sid)
                 /\ AddReviewRoute(t, sid, 4))
                => (last'.status = NotFound /\ UNCHANGED <<fkEnforced, dbVars>>)
          /\ \A u \in UserIds, cid \in CarIds :
                (~CarExists(cid) /\ AddCarReviewCall(u, cid, 4))
                => (last'.status = NotFound /\ UNCHANGED <<fkEnforced, dbVars>>)
          /\ \A r \in reviews' \ reviews : \E s \in stays' : s.id = r.stay_id
          /\ \A r \in carReviews' \ carReviews : \E c \in cars' : c.id = r.car_id]_vars

\* C28: a registration with role admin is answered Forbidden and creates no
\* user, update_user leaves every role as it is, and an account gains the
\* admin role only in a change_user_role step served for an account that is
\* admin, or in the startup seed when no user is admin.
C28_OnlyAdminsMakeAdmins ==
    [][/\ \A e \in Emails :
            Register(e, "admin")
                => (last'.status = Forbidden /\ UNCHANGED <<fkEnforced, dbVars>>)
       /\ last'.op = "update_user" =>
            /\ {u.id : u \in users'} = {u.id : u \in users}
            /\ \A u \in users' : \E v \in users : v.id = u.id /\ v.role = u.role
       /\ \A u \in users' :
            (u.role = "admin" /\ ~\E v \in users : v.id = u.id /\ v.role = "admin")
            => \/ /\ last'.op = "change_user_role"
                  /\ \E a \in users : a.id = caller' /\ a.role = "admin"
               \/ /\ last'.op = "init_db"
                  /\ ~\E v \in users : v.role = "admin"]_vars

\* the admin has given a second account the admin role, and the last request,
\* a registration with role admin, was refused
C28_Witness ==
    /\ last = [op |-> "create_user", status |-> Forbidden]
    /\ \E u \in users : u.id # 1 /\ u.role = "admin"

\* C29: a role-guarded request is accepted exactly when the role stored, at
\* the time of the request, for the account its token was issued to equals
\* the guard's role, and once that account (a@x, user TokenHolder) is deleted
\* every request carrying its token is answered Unauthorized.
C29_TokenFollowsTheStoredAccount ==
    [][/\ \A t \in Emails :
            TokenKnown(t) =>
                /\ AdminListUsers(t) =>
                    (last'.status \notin {Unauthorized, Forbidden}
                        <=> get_current_user(t).role = "admin")
                /\ AddReviewRoute(t, RaceListing, 4) =>
                    (last'.status \notin {Unauthorized, Forbidden}
                        <=> get_current_user(t).role = "customer")
       /\ (/\ ~\E u \in users : u.id = TokenHolder
           /\ \/ UpdateMe("a@x") \/ DeleteMe("a@x")
              \/ AdminListUsers("a@x") \/ AddReviewRoute("a@x", RaceListing, 4)
              \/ \E u \in UserIds, r \in UserRole : ChangeRole("a@x", u, r)
              \/ \E u \in UserIds : DeleteUserAsAdmin("a@x", u))
          => last'.status = Unauthorized]_vars

\* C30: an update_car step of the owning provider leaves every field that
\* was not sent, and provider_id, rating_avg, review_count, the reviews and
\* the images, as they were; a sent field takes the value sent; without
\* feature_ids the car's links are unchanged, and an update that succeeds
\* with feature_ids leaves the car linked to exactly the features sent.
C30_UpdateCarChangesOnlyWhatWasSent ==
    [][\A t \in Emails, cid \in CarIds, i \in CarUpdate :
        (/\ last'.op = "update_car"
         /\ ProviderGate(t) = OK /\ OwnsCar(ProviderFor(t).id, cid)
         /\ UpdateCarRoute(t, cid, i)) =>
            LET old == CarRow(cid)
                new == CHOOSE c \in cars' : c.id = cid
                linked(rows) == {l.feature_id : l \in {x \in rows : x.car_id = cid}}
            IN  /\ \E c \in cars' : c.id = cid
                /\ cars' \ {new} = cars \ {old}
                /\ new.provider_id = old.provider_id
                /\ new.car_type_id = old.car_type_id
                /\ new.rating_avg = old.rating_avg
                /\ new.review_count = old.review_count
                /\ new.price_per_day = IF i.price_per_day = Unset
                                       THEN old.price_per_day ELSE i.price_per_day[1]
                /\ new.is_featured = IF i.is_featured = Unset
                                     THEN old.is_featured ELSE i.is_featured[1]
                /\ UNCHANGED <<carReviews, carImages, accountVars, taxVars, stayVars>>
                /\ {l \in carFeatureLink' : l.car_id # cid}
                        = {l \in carFeatureLink : l.car_id # cid}
                /\ i.feature_ids = Unset =>
                        (last'.status = OK /\ carFeatureLink' = carFeatureLink)
                /\ (i.feature_ids # Unset /\ last'.status = OK) =>
                        linked(carFeatureLink') = Range(i.feature_ids[1])]_vars

\* an update has answered 200 on a car that has a review and an image, is
\* featured (only update_car sets the flag), kept the price it was created
\* with and is linked to feature 1
C30_Witness ==
    /\ last = [op |-> "update_car", status |-> OK]
    /\ carImages # {}
    /\ \E c \in cars :
        /\ c.is_featured /\ c.price_per_day = 100 /\ c.review_count = 1
        /\ {l.feature_id : l \in {x \in carFeatureLink : x.car_id = c.id}} = {1}
====
